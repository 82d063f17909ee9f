------------------------------- MODULE M2mRpc -------------------------------
(***************************************************************************)
(* What the Controller library (mmagic_controller.h) promises the tasks    *)
(* that call it: a command is carried out at most once, and a call that    *)
(* returns MMAGIC_STATUS_OK returns the answer to its own command.  A call *)
(* may fail at any time, before or after its command was carried out.      *)
(***************************************************************************)
EXTENDS Naturals

CONSTANTS Callers,  \* tasks of the Controller
          NoAnswer

VARIABLES issued,   \* issued[c]: number of commands c has issued
          open,     \* open[c]: the last of them has not returned yet
          done,     \* commands carried out, as <<caller, number>>
          answer    \* command whose answer the last successful call returned

rpcVars == <<issued, open, done, answer>>

RpcInit ==
  /\ issued = [c \in Callers |-> 0] /\ open = [c \in Callers |-> FALSE]
  /\ done = {} /\ answer = [c \in Callers |-> NoAnswer]

Issue(c) ==
  /\ ~open[c]
  /\ issued' = [issued EXCEPT ![c] = @ + 1]
  /\ open' = [open EXCEPT ![c] = TRUE]
  /\ answer' = [answer EXCEPT ![c] = NoAnswer]
  /\ UNCHANGED done

CarryOut(c) ==
  /\ \E n \in 1..issued[c] : <<c, n>> \notin done /\ done' = done \cup {<<c, n>>}
  /\ UNCHANGED <<issued, open, answer>>

Return(c) ==
  /\ open[c] /\ <<c, issued[c]>> \in done
  /\ open' = [open EXCEPT ![c] = FALSE]
  /\ answer' = [answer EXCEPT ![c] = <<c, issued[c]>>]
  /\ UNCHANGED <<issued, done>>

Fail(c) ==
  /\ open[c]
  /\ open' = [open EXCEPT ![c] = FALSE]
  /\ UNCHANGED <<issued, done, answer>>

RpcNext == \E c \in Callers : Issue(c) \/ CarryOut(c) \/ Return(c) \/ Fail(c)

RpcSpec == RpcInit /\ [][RpcNext]_rpcVars
=============================================================================
