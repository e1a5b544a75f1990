----------------------------- MODULE RemoteCall -----------------------------
(***************************************************************************)
(* What a command promises its caller, whatever datagrams, attempts and    *)
(* timeouts it is built from: one call at a time; a command takes effect   *)
(* only while its call is in progress, perhaps more than once and perhaps  *)
(* not at all; if the call succeeds, it has taken effect, and what the     *)
(* call says of the device is true.  A call that fails says nothing: its   *)
(* command may have been carried out.                                      *)
(***************************************************************************)

CONSTANTS States,           \* of the device
          Operations,       \* commands with their arguments
          Forgiving,        \* the ones that succeed without an answer
          Values,           \* what a call may tell the caller
          Effect(_, _),     \* Effect(o, s): the state after o in state s
          Tells(_, _, _)    \* Tells(o, s, v): v is the answer to o in state s

VARIABLES state,    \* of the device
          op,       \* the current or last command
          busy,     \* a call is in progress
          done,     \* the command has taken effect in this call
          outcome   \* of the last call

vars == <<state, op, busy, done, outcome>>

Init ==
    /\ state \in States
    /\ op \in Operations
    /\ ~busy
    /\ ~done
    /\ outcome.status # "ok"

Begin ==
    /\ ~busy
    /\ busy'
    /\ op' \in Operations
    /\ ~done'
    /\ UNCHANGED <<state, outcome>>

TakeEffect ==
    /\ busy
    /\ state' = Effect(op, state)
    /\ done'
    /\ UNCHANGED <<op, busy, outcome>>

Succeed(v) ==
    /\ busy
    /\ op \in Forgiving \/ (done /\ Tells(op, state, v))
    /\ ~busy'
    /\ outcome' = [status |-> "ok", value |-> v]
    /\ UNCHANGED <<state, op, done>>

Fail ==
    /\ busy
    /\ ~busy'
    /\ outcome'.status # "ok"
    /\ UNCHANGED <<state, op, done>>

Next ==
    \/ Begin
    \/ TakeEffect
    \/ \E v \in Values : Succeed(v)
    \/ Fail

Spec == Init /\ [][Next]_vars
=============================================================================
