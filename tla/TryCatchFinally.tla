--------------------------- MODULE TryCatchFinally ---------------------------
(***************************************************************************)
(* What try, catch and finally promise, told without any handler table.    *)
(*                                                                         *)
(* A call has a code position: the protected regions around it, outermost  *)
(* first.  An exception goes to the innermost region that protects the     *)
(* point where it was raised, in the innermost call that has one; a        *)
(* finally body runs on every way out of its region, and at its end the    *)
(* completion it interrupted goes on.  A fatal error leaves every call and *)
(* runs nothing.                                                           *)
(***************************************************************************)
EXTENDS Naturals, Sequences, FiniteSets, SequencesExt, FiniteSetsExt

CONSTANTS
    MaxCalls        \* calls that may be active

VARIABLES
    calls,          \* the active calls, the running one last: their positions
    status,         \* "running", "raising", "returning", "ended", "failed"
    fatal           \* a fatal error has been raised

tcfVars == <<calls, status, fatal>>

(***************************************************************************)
(* Regions: a try body that only catches ("try"), only has a finally       *)
(* ("tryF") or both ("tryCF"); a catch body outside or inside a finally    *)
(* ("catch", "catchF"); a finally body ("finally"), which remembers the    *)
(* completion it interrupted in then.                                      *)
(***************************************************************************)
Tries == {"try", "tryF", "tryCF"}
Catching == {"try", "tryCF"}
Finalized == {"tryF", "tryCF", "catchF"}
Protected == Tries \cup {"catchF"}

Part(code, then) == [code |-> code, then |-> then]
Position == calls[Len(calls)]
Moved(pos) == [calls EXCEPT ![Len(calls)] = pos]

DepthsOf(pos, codes) == {d \in DOMAIN pos : pos[d].code \in codes}
Outside(pos, d) == SubSeq(pos, 1, d - 1)

InFinally(pos, d, then) == Append(Outside(pos, d), Part("finally", then))

\* Where an exception raised at pos goes on in that call.
HandlerAt(pos) ==
    LET d == Max(DepthsOf(pos, Protected))
    IN  CASE pos[d].code = "try" -> Append(Outside(pos, d), Part("catch", "normal"))
          [] pos[d].code = "tryCF" -> Append(Outside(pos, d), Part("catchF", "normal"))
          [] OTHER -> InFinally(pos, d, "raise")

Init ==
    /\ calls = <<<<>>>>
    /\ status = "running"
    /\ fatal = FALSE

Enter(code) ==
    /\ status = "running"
    /\ code \in Tries
    /\ calls' = Moved(Append(Position, Part(code, "normal")))
    /\ UNCHANGED <<status, fatal>>

\* A region is left at its end: a finally comes next if it has one.
Leave ==
    /\ status = "running"
    /\ Position # <<>>
    /\ LET d == Len(Position)
       IN  CASE Position[d].code \in {"try", "catch"} ->
                    /\ calls' = Moved(Outside(Position, d))
                    /\ status' = status
             [] Position[d].code \in Finalized ->
                    /\ calls' = Moved(InFinally(Position, d, "normal"))
                    /\ status' = status
             [] OTHER ->
                    /\ calls' = Moved(Outside(Position, d))
                    /\ status' = CASE Position[d].then = "return" -> "returning"
                                   [] Position[d].then = "raise" -> "raising"
                                   [] OTHER -> "running"
    /\ UNCHANGED fatal

\* break and continue: out of regions that protect nothing.
Jump(d) ==
    /\ status = "running"
    /\ d \in DOMAIN Position
    /\ \A e \in d .. Len(Position) : Position[e].code = "catch"
    /\ calls' = Moved(Outside(Position, d))
    /\ UNCHANGED <<status, fatal>>

Call ==
    /\ status = "running"
    /\ Len(calls) < MaxCalls
    /\ calls' = Append(calls, <<>>)
    /\ UNCHANGED <<status, fatal>>

Raise ==
    /\ status = "running"
    /\ status' = "raising"
    /\ UNCHANGED <<calls, fatal>>

RaiseFatal ==
    /\ status = "running"
    /\ status' = "raising"
    /\ fatal' = TRUE
    /\ UNCHANGED calls

Return ==
    /\ status = "running"
    /\ status' = "returning"
    /\ UNCHANGED <<calls, fatal>>

\* A native function returns at once: it has no regions.
ReturnAtOnce ==
    /\ status = "running"
    /\ Position = <<>>
    /\ Len(calls) > 1
    /\ calls' = Front(calls)
    /\ UNCHANGED <<status, fatal>>

LeaveCall(then, final) ==
    /\ calls' = Front(calls)
    /\ status' = IF Len(calls) = 1 THEN final ELSE then

Propagate ==
    /\ status = "raising"
    /\ IF fatal \/ DepthsOf(Position, Protected) = {}
       THEN LeaveCall("raising", "failed")
       ELSE /\ calls' = Moved(HandlerAt(Position))
            /\ status' = "running"
    /\ UNCHANGED fatal

Complete ==
    /\ status = "returning"
    /\ LET finals == DepthsOf(Position, Finalized)
       IN  IF finals = {}
           THEN LeaveCall("running", "ended")
           ELSE /\ calls' = Moved(InFinally(Position, Max(finals), "return"))
                /\ status' = "running"
    /\ UNCHANGED fatal

Next ==
    \/ \E code \in Tries : Enter(code)
    \/ Leave
    \/ status = "running" /\ \E d \in DOMAIN Position : Jump(d)
    \/ Call \/ Raise \/ RaiseFatal \/ Return \/ ReturnAtOnce
    \/ Propagate \/ Complete

Spec == Init /\ [][Next]_tcfVars
==============================================================================
