---- MODULE TrailingStop ----
(***************************************************************************)
(* TrailingStopManager for one symbol, and BinanceTestnetBroker's          *)
(* replace_stop_loss, one action per await.  The manager remembers, per    *)
(* position, the original risk R, the best mark it has observed and the    *)
(* progress of each profile; it saves all of that in runtime_state and     *)
(* loads it again after a restart.  In mode "shadow" it only records what  *)
(* five profiles would do, in mode "live" it moves the exchange stop of    *)
(* one.                                                                    *)
(***************************************************************************)
EXTENDS VenuePosition

CONSTANTS
  Profiles,      \* the profiles: activation and distance, in quarters of R
  LiveProfile,   \* index of the one that mode "live" executes
  Modes          \* settings.trailing_stop_mode the process may be started with

ASSUME ProfileAssumption ==
  /\ Profiles \in Seq([activation : Nat, distance : Nat])
  /\ LiveProfile \in DOMAIN Profiles
  /\ Modes \subseteq {"off", "shadow", "live"}

VARIABLES
  mode,       \* of this process
  state,      \* _states[symbol]; NoState when absent
  loaded,     \* _loaded
  saved,      \* the runtime_state row: mode and state, or NoRow
  dirty,      \* `changed` in maintain
  todo,       \* profiles this pass has still to look at
  candidate,  \* argument of replace_stop_loss
  previous,   \* the stop it found
  fills       \* history: "simulated_filled" events this process wrote of the
              \* position, by profile

trailingVars == <<mode, state, loaded, saved, dirty, todo, candidate, previous,
                  fills>>

Fresh   == [active |-> FALSE, last |-> NoPrice, filled |-> FALSE]
NoState == [side |-> "NONE", entry |-> NoPrice, risk |-> 0, best |-> NoPrice,
            progress |-> [i \in DOMAIN Profiles |-> Fresh]]
NoFills == [i \in DOMAIN Profiles |-> 0]
NoRow   == [mode |-> "NONE", state |-> NoState]

\* _profiles: the indices a mode works on, in order.
Working == IF mode = "shadow" THEN [i \in DOMAIN Profiles |-> i] ELSE <<LiveProfile>>

----------------------------------------------------------------------------
\* maintain: _load, the states of closed positions, and the position at hand.

\* A state saved by another mode keeps R, best mark and activation, but
\* forgets its candidates and simulated fills.
Restored ==
  IF saved.mode = mode THEN saved.state
  ELSE [saved.state EXCEPT !.progress =
         [i \in DOMAIN Profiles |-> [Fresh EXCEPT !.active = saved.state.progress[i].active]]]

Load ==
  /\ pc = "load"
  /\ loaded' = (loaded \/ mode # "off")
  /\ state' = IF loaded \/ mode = "off" THEN state ELSE Restored
  /\ dirty' = FALSE
  /\ pc' = IF mode = "off" THEN "partial" ELSE "manage"
  /\ UNCHANGED <<venueVars, running, seen, have, mode, saved, todo, candidate,
                 previous, fills>>

\* The position is gone: its state is dropped.
Forget ==
  /\ pc = "manage" /\ seen.side = "NONE"
  /\ state' = NoState
  /\ pc' = IF state = NoState THEN "partial" ELSE "save"
  /\ UNCHANGED <<venueVars, running, seen, have, mode, loaded, saved, dirty,
                 todo, candidate, previous, fills>>

\* _maintain_position: a new position, or one whose average entry moved,
\* starts over from its present stop.
Started ==
  [side |-> seen.side, entry |-> seen.entry, risk |-> Distance(seen.entry, seen.stop),
   best |-> seen.mark, progress |-> [i \in DOMAIN Profiles |-> Fresh]]

\* Mutant: an ADD does not start the position over.
KnownBySide == state.side = seen.side
Known == state.side = seen.side /\ state.entry = seen.entry

Observe ==
  /\ pc = "manage" /\ seen.side # "NONE"
  /\ IF seen.stop = NoPrice \/ (~Known /\ ~LossSide(seen.side, seen.entry, seen.stop))
     THEN /\ pc' = "failed"
          /\ UNCHANGED <<state, dirty, todo>>
     ELSE LET base == IF Known THEN state ELSE Started
              best == Better(seen.side, base.best, seen.mark)
          IN /\ state' = [base EXCEPT !.best = best]
             /\ dirty' = (dirty \/ state' # state)
             /\ todo' = Working
             /\ pc' = "profile"
  /\ UNCHANGED <<venueVars, running, seen, have, mode, loaded, saved, candidate,
                 previous, fills>>

----------------------------------------------------------------------------
\* _maintain_profile for the profile at the head of todo.

Profile  == Profiles[Head(todo)]
Progress == state.progress[Head(todo)]

Activated == Progress.active \/
  4 * Gain(state.side, state.entry, state.best) >= Profile.activation * state.risk

\* _to_tick of best mark - distance: to the losing side, away from the mark.
Trigger ==
  LET raw == Behind(state.side, 4 * state.best, Profile.distance * state.risk)
      step == 4 * Tick
  IN IF state.side = "LONG" THEN (raw \div step) * Tick
     ELSE ((raw + step - 1) \div step) * Tick

MinimumStep == IF 10 * Tick > state.risk THEN 10 * Tick ELSE state.risk

\* The candidate is better than the last one by max(tick, 0.1R); without a last
\* one, than the exchange stop.
Reference == IF Progress.last # NoPrice THEN Progress.last ELSE seen.stop
Improves  == 10 * Gain(seen.side, Reference, Trigger) >= MinimumStep
\* The mark has not reached the trigger yet.
Reachable == Gain(seen.side, Trigger, seen.mark) >= Tick

Crossed == mode = "shadow" /\ Progress.last # NoPrice /\
           Gain(seen.side, Progress.last, seen.mark) <= 0
Due == ~Progress.filled /\ ~Crossed /\ Activated /\ Improves

Note(progress) == state' = [state EXCEPT !.progress[Head(todo)] = progress]

\* Nothing to do: frozen, not activated, or no improvement.
ProfileQuiet ==
  /\ pc = "profile" /\ todo # <<>>
  /\ Progress.filled \/ (~Crossed /\ ~Due)
  /\ Note([Progress EXCEPT !.active = @ \/ (~Progress.filled /\ Activated)])
  /\ dirty' = (dirty \/ state' # state)
  /\ todo' = Tail(todo)
  /\ UNCHANGED <<venueVars, running, pc, seen, have, mode, loaded, saved,
                 candidate, previous, fills>>

\* The state is changed first; then the event is written, which may fail.
Record(counted) ==
  \/ /\ pc' = pc
     /\ todo' = Tail(todo)
     /\ dirty' = TRUE
     /\ fills' = counted
  \/ /\ "database" \in Faults
     /\ pc' = "failed"
     /\ UNCHANGED <<todo, dirty, fills>>

\* Mutant: the profile is not frozen.
ProfileFillsAgain ==
  /\ pc = "profile" /\ todo # <<>>
  /\ ~Progress.filled /\ Crossed
  /\ state' = state
  /\ Record([fills EXCEPT ![Head(todo)] = @ + 1])
  /\ UNCHANGED <<venueVars, running, seen, have, mode, loaded, saved, candidate,
                 previous>>
\* Shadow: the mark crossed the candidate, the profile is frozen.
ProfileFills ==
  /\ pc = "profile" /\ todo # <<>>
  /\ ~Progress.filled /\ Crossed
  /\ Note([Progress EXCEPT !.filled = TRUE])
  /\ Record([fills EXCEPT ![Head(todo)] = @ + 1])
  /\ UNCHANGED <<venueVars, running, seen, have, mode, loaded, saved, candidate,
                 previous>>

\* "missed" (the mark is already past the candidate) and "shadow" record the
\* candidate and leave the exchange alone.
ProfileRecords ==
  /\ pc = "profile" /\ todo # <<>>
  /\ Due /\ (~Reachable \/ mode = "shadow")
  /\ Note([Progress EXCEPT !.active = TRUE, !.last = Trigger])
  /\ Record(fills)
  /\ UNCHANGED <<venueVars, running, seen, have, mode, loaded, saved, candidate,
                 previous>>

\* Live: the exchange stop is to be replaced.
ProfileReplaces ==
  /\ pc = "profile" /\ todo # <<>>
  /\ Due /\ Reachable /\ mode = "live"
  /\ Note([Progress EXCEPT !.active = TRUE])
  /\ candidate' = Trigger
  /\ pc' = "find"
  /\ UNCHANGED <<venueVars, running, seen, have, mode, loaded, saved, dirty, todo,
                 previous, fills>>

ProfilesDone ==
  /\ pc = "profile" /\ todo = <<>>
  /\ pc' = IF dirty THEN "save" ELSE "partial"
  /\ UNCHANGED <<venueVars, running, seen, have, trailingVars>>

----------------------------------------------------------------------------
\* replace_stop_loss

\* The stop is read again; it must exist, and a stop that is already as tight
\* is left alone.
FindStop ==
  /\ pc = "find"
  /\ \/ /\ stop # NoPrice
        /\ previous' = stop
        /\ IF Gain(seen.side, stop, candidate) > 0
           THEN pc' = "remove" /\ UNCHANGED candidate
           ELSE pc' = "applied" /\ candidate' = stop
     \/ /\ stop = NoPrice \/ "read" \in Faults
        /\ pc' = "failed"
        /\ UNCHANGED <<previous, candidate>>
  /\ UNCHANGED <<venueVars, running, seen, have, mode, state, loaded, saved, dirty,
                 todo, fills>>

\* _cancel_algo_order: gone (-2011), refused, or without an answer; all of
\* these are ordinary failures of the pass.
RemoveStop ==
  /\ pc = "remove"
  /\ \/ stop # NoPrice /\ stop' = NoPrice /\ pc' = "install"
     \/ /\ stop = NoPrice \/ {"removeRefused", "removeLost"} \cap Faults # {}
        /\ UNCHANGED stop /\ pc' = "failed"
     \/ "removeApplied" \in Faults /\ stop' = NoPrice /\ pc' = "failed"
  /\ UNCHANGED <<position, mark, openings, truth, running, seen, have, trailingVars>>

\* A closePosition order needs a position, a free slot and an unreached trigger.
Accepted(price) ==
  position # Flat /\ stop = NoPrice /\ Gain(position.side, price, mark) > 0

Placed(price) ==
  /\ stop' = price
  /\ truth' = [truth EXCEPT !.tightest = Better(position.side, @, price)]

InstallStop ==
  /\ pc = "install"
  /\ \/ /\ Accepted(candidate)
        /\ Placed(candidate)
        /\ pc' = "applied"
     \/ /\ ~Accepted(candidate) \/ {"placeRefused", "placeLost"} \cap Faults # {}
        /\ pc' = "restore" /\ UNCHANGED <<stop, truth>>
     \/ /\ "placeApplied" \in Faults /\ Accepted(candidate)
        /\ Placed(candidate)
        /\ pc' = "restore"
  /\ UNCHANGED <<position, mark, openings, running, seen, have, trailingVars>>

\* Mutant: a failed restoration is an ordinary failure.
RestoreStopQuietly ==
  /\ pc = "restore"
  /\ \/ Accepted(previous) /\ Placed(previous)
     \/ UNCHANGED <<stop, truth>>
  /\ pc' = "failed"
  /\ UNCHANGED <<position, mark, openings, running, seen, have, trailingVars>>
\* Mutant: what is put back is the stop that the position began with.
RestoreFirstStop ==
  /\ pc = "restore"
  /\ LET first == Behind(state.side, state.entry, state.risk) IN
     \/ /\ Accepted(first)
        /\ Placed(first)
        /\ pc' = "failed"
     \/ /\ ~Accepted(first)
        /\ pc' = "critical" /\ UNCHANGED <<stop, truth>>
  /\ UNCHANGED <<position, mark, openings, running, seen, have, trailingVars>>
\* The old trigger is put back under the old id; if even that fails, the
\* protection is lost.
RestoreStop ==
  /\ pc = "restore"
  /\ \/ /\ Accepted(previous)
        /\ Placed(previous)
        /\ pc' = "failed"
     \/ /\ ~Accepted(previous) \/ {"placeRefused", "placeLost"} \cap Faults # {}
        /\ pc' = "critical" /\ UNCHANGED <<stop, truth>>
     \/ /\ "placeApplied" \in Faults /\ Accepted(previous)
        /\ Placed(previous)
        /\ pc' = "critical"
  /\ UNCHANGED <<position, mark, openings, running, seen, have, trailingVars>>

\* Lost protection is recorded and then raised as TrailingStopCriticalError; if
\* the record fails, its error is raised instead.
RecordCritical ==
  /\ pc = "critical"
  /\ \/ pc' = "escalate"
     \/ "database" \in Faults /\ pc' = "failed"
  /\ UNCHANGED <<venueVars, running, seen, have, trailingVars>>

\* The replacement succeeded: the candidate is noted and the event written.
NoteApplied ==
  /\ pc = "applied"
  /\ Note([Progress EXCEPT !.last = candidate])
  /\ \/ pc' = "profile" /\ dirty' = TRUE /\ todo' = Tail(todo)
     \/ "database" \in Faults /\ pc' = "failed" /\ UNCHANGED <<dirty, todo>>
  /\ UNCHANGED <<venueVars, running, seen, have, mode, loaded, saved, candidate,
                 previous, fills>>

----------------------------------------------------------------------------
\* The end of maintain.

\* An error of the position is recorded and the state saved all the same; if
\* the record fails too, the error leaves maintain and skips the symbol.
Fail ==
  /\ pc = "failed"
  /\ \/ pc' = "save" /\ dirty' = TRUE
     \/ "database" \in Faults /\ pc' = "done" /\ UNCHANGED dirty
  /\ UNCHANGED <<venueVars, running, seen, have, mode, state, loaded, saved, todo,
                 candidate, previous, fills>>

Save ==
  /\ pc = "save"
  /\ \/ saved' = [mode |-> mode, state |-> state] /\ pc' = "partial"
     \/ "database" \in Faults /\ UNCHANGED saved /\ pc' = "done"
  /\ UNCHANGED <<venueVars, running, seen, have, mode, state, loaded, dirty, todo,
                 candidate, previous, fills>>

TrailingInit ==
  /\ mode \in Modes
  /\ state = NoState
  /\ loaded = FALSE
  /\ saved = NoRow
  /\ dirty = FALSE
  /\ todo = <<>>
  /\ candidate = NoPrice
  /\ previous = NoPrice
  /\ fills = NoFills

TrailingNext ==
  \/ Load \/ Forget \/ Observe
  \/ ProfileQuiet \/ ProfileFills \/ ProfileRecords \/ ProfileReplaces \/ ProfilesDone
  \/ FindStop \/ RemoveStop \/ InstallStop \/ RestoreStop
  \/ RecordCritical \/ NoteApplied
  \/ Fail \/ Save
====
