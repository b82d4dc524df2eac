-------------------------- MODULE MCMeetingSession --------------------------
(***************************************************************************)
(* Instances of MeetingSession: ann owns the meeting, bob is a colleague   *)
(* whom the schedule may make today's host.                                *)
(* The second half states what comments of the source say of a session;    *)
(* a run of its own refutes each.                                          *)
(***************************************************************************)
EXTENDS MeetingSession, TLC

CONSTANTS ann, bob, a1, a2, b1

TwoUsers == {ann, bob}
OneTabEach == {a1, b1}
OneTabOwner == (a1 :> ann) @@ (b1 :> bob)
TwoTabs == {a1, a2, b1}
TwoTabsOwner == (a1 :> ann) @@ (a2 :> ann) @@ (b1 :> bob)

-----------------------------------------------------------------------------
\* No status UPDATE and no election is in flight.
StatusQuiet == activating + electing + resets = 0 /\ ~cleaning

\* "Called when the first participant joins via socket -- sets meeting to
\* active" (meetings.service.ts:530): once all is executed, an occupied meeting
\* is active.  The reset of the session before may be executed after the
\* setActive of this one.
OccupiedIsActive ==
    participants # {} /\ StatusQuiet => status = "active"

\* "Remove from ephemeral co-host set" (meetings.gateway.ts:683): once
\* co_host_demoted is broadcast the user is no co-host.  A join that loaded the
\* co-hosts before may have replaced the Set the handler deletes from.
DemotedIsNoCoHost ==
    [][\A u \in Users : demoting[u] = "resume" /\ demoting'[u] = "idle"
                /\ commands' = commands
            => u \notin coHosts']_vars

\* "e.g. server restarted while meeting was in progress"
\* (meetings.service.ts:688): an active meeting nobody is in is reset or
\* entered again.  Open rows survive the restart and hold the cleanup off.
StuckIsReset ==
    (status = "active" /\ participants = {})
        ~> (status = "scheduled" \/ participants # {})
=============================================================================
