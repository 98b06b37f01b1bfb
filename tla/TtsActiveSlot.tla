--------------------------- MODULE TtsActiveSlot ---------------------------
(***************************************************************************)
(* What TtsRuntimeSupervisor promises its callers about the active model,  *)
(* with its processes left out: calls are served one at a time, and each   *)
(* leaves in the slot the model it was asked for, the model it found       *)
(* there (a rollback), or nothing; never a third one.                      *)
(***************************************************************************)
EXTENDS Naturals

CONSTANTS Model, NoModel

VARIABLES slot,         \* the active model
          call,         \* the call being served: its kind and its model
          interrupted   \* calls that did not run to their end

slotVars == <<slot, call, interrupted>>

NoCall == [kind |-> "none", req |-> NoModel]

Calls ==
    [kind : {"activate", "ensure", "recover"}, req : Model]
      \cup {[kind |-> "release", req |-> slot]}
      \cup {[kind |-> "shutdown", req |-> NoModel]}

Init == slot = NoModel /\ call = NoCall /\ interrupted = 0

Begin ==
    /\ call = NoCall
    /\ call' \in Calls
    /\ UNCHANGED <<slot, interrupted>>

(* What a call that runs to its end may leave in the slot.                  *)
Outcome ==
    CASE call.kind = "activate" ->
           {call.req, slot, NoModel}
      [] call.kind \in {"ensure", "recover"} -> {call.req, NoModel}
      [] OTHER -> {NoModel}

End ==
    /\ call # NoCall
    /\ slot' \in Outcome
    /\ call' = NoCall
    /\ UNCHANGED interrupted

(* A cancelled call may also leave the slot as it found it.                 *)
Interrupted ==
    /\ call.kind \in {"ensure", "recover"}
    /\ slot' \in {slot, NoModel}
    /\ call' = NoCall
    /\ interrupted' = interrupted + 1

Next == Begin \/ End \/ Interrupted

Spec == Init /\ [][Next]_slotVars

=============================================================================
