-------------------------------- MODULE Outbox --------------------------------
(***************************************************************************)
(* Telling a person that the company needs them: the scan that turns what  *)
(* is wrong into notices (escalation.py), the append-only outbox they wait *)
(* in and the commands that hand them on (notify.py).                      *)
(*                                                                         *)
(* The outbox file is locked for the length of one append.  Everything     *)
(* that decides what to append has been read before, so a process is cut   *)
(* between its reading, the operator's command, and its append.            *)
(***************************************************************************)
EXTENDS Integers, FiniteSets

CONSTANTS
  Places,      \* runs, steps, requests and calls a person may be needed for
  Troubles,    \* [Places -> kinds of notice the place can give rise to]
  Scanners,    \* processes that run scan: the scheduler's, and escalation's command
  Terminals,   \* processes that run notify deliver and notify ack
  NoNotice,
  MaxNews,     \* bound: changes of one place
  MaxCount,    \* bound: what a notice counts (steps done, attempts spent, lessons)
  MaxTries,    \* bound: failed sends of one notice
  MaxCrashes   \* bound: processes that die between two steps

Severity ==
  [needs_approval |-> 0, run_failed |-> 0, idea_failed |-> 0, call_approval |-> 0, call_unresolved |-> 0,
   run_stalled |-> 1, idea_stuck |-> 1, lesson_proposed |-> 2, run_completed |-> 2]
Kinds == DOMAIN Severity

ASSUME OutboxAssumption ==
  /\ Troubles \in [Places -> SUBSET Kinds]
  /\ MaxNews \in Nat /\ MaxCount \in Nat /\ MaxTries \in Nat /\ MaxCrashes \in Nat
ASSUME PlacesAssumption == IsFiniteSet(Places)

VARIABLES
  world,     \* [Places -> [kind, count, news]]: what is the matter there, and the how manieth matter it is
  outbox,    \* latest record of each notice id
  process,   \* [Processes -> where it is, what it has read, the record in its hand]
  told,      \* history: what a person got to see
  repeats,   \* history: how often a person got to see something again
  late,      \* history: sends that arrived although the command ran out of time
  crashes

vars == <<world, outbox, process, told, repeats, late, crashes>>
history == <<told, repeats, late>>

Processes == Scanners \cup Terminals

\* notice_id: one id per subject
NoticeId(kind, s) == <<kind, s>>
Ids == UNION {{NoticeId(k, s) : k \in Troubles[s]} : s \in Places}

\* A notice raised now.  "about" is the matter it speaks of, which its words need not show.
Raised(s) ==
  [id |-> NoticeId(world[s].kind, s), words |-> world[s].count, about |-> world[s].news,
   delivered |-> FALSE, attempts |-> 0]
Facts == {Raised(s) : s \in {s \in Places : world[s].kind # "quiet"}}

Present(id) == outbox[id] # NoNotice
Outstanding == {outbox[id] : id \in {id \in Ids : Present(id) /\ ~outbox[id].delivered}}

Idle == [pc |-> "idle", todo |-> {}, hand |-> NoNotice]

Init ==
  /\ world = [s \in Places |-> [kind |-> "quiet", count |-> 0, news |-> 0]]
  /\ outbox = [id \in Ids |-> NoNotice]
  /\ process = [p \in Processes |-> Idle]
  /\ told = {} /\ repeats = 0 /\ late = 0 /\ crashes = 0

-----------------------------------------------------------------------------
(* The rest of the company *)

\* A step is parked, a run ends or goes quiet, a lesson is proposed, a call is decided ...
Change(s) ==
  /\ world[s].news < MaxNews
  /\ \E kind \in Troubles[s] \cup {"quiet"}, more \in {0, 1} :
       /\ kind # world[s].kind \/ more = 1
       /\ world[s].count + more <= MaxCount
       /\ world' = [world EXCEPT ![s] = [kind |-> kind, count |-> @.count + more, news |-> @.news + 1]]
  /\ UNCHANGED <<outbox, process, history, crashes>>

-----------------------------------------------------------------------------
(* scan *)

Where(p) == process[p].pc
Hand(p) == process[p].hand

BeginScan(p) ==
  /\ p \in Scanners /\ Where(p) = "idle"
  /\ process' = [process EXCEPT ![p] = [Idle EXCEPT !.pc = "scanning", !.todo = Facts]]
  /\ UNCHANGED <<world, outbox, history, crashes>>

\* raise_notice: not again while it waits, and not again when nothing about it has changed
ChangedOrNot(prior, n) == prior = NoNotice \/ prior.words # n.words  \* mutant: even while it waits
EveryTime(prior, n) == prior = NoNotice \/ prior.delivered           \* mutant: the same fact every pass
OnlyOnce(prior, n) == prior = NoNotice                               \* mutant: a changed fact is no news
WorthRaising(prior, n) == prior = NoNotice \/ (prior.delivered /\ prior.words # n.words)

Consider(p) ==
  /\ Where(p) = "scanning"
  /\ \E n \in process[p].todo :
       process' = [process EXCEPT ![p] =
         IF WorthRaising(outbox[n.id], n)
           THEN [pc |-> "raising", todo |-> @.todo \ {n}, hand |-> n]
           ELSE [@ EXCEPT !.todo = process[p].todo \ {n}]]
  /\ UNCHANGED <<world, outbox, history, crashes>>

-----------------------------------------------------------------------------
(* deliver, ack *)

Take(p) ==
  /\ p \in Terminals /\ Where(p) = "idle" /\ Outstanding # {}
  /\ process' = [process EXCEPT ![p] = [Idle EXCEPT !.pc = "delivering", !.todo = Outstanding]]
  /\ UNCHANGED <<world, outbox, history, crashes>>

NextToSend(p) == {n \in process[p].todo : \A m \in process[p].todo : Severity[n.id[1]] <= Severity[m.id[1]]}

Told(n) == [id |-> n.id, words |-> n.words, about |-> n.about]
PersonSees(n) ==
  /\ told' = told \cup {Told(n)}
  /\ repeats' = repeats + (IF Told(n) \in told THEN 1 ELSE 0)

\* record_failure: a copy of the notice as it was when the pass began
Failed(n) == [n EXCEPT !.attempts = @ + 1]

\* The operator's command: it exits 0, it fails, or it is killed after it got through.
Send(p, n, result) ==
  /\ Where(p) = "delivering" /\ n \in NextToSend(p)
  /\ result = "ok" \/ n.attempts < MaxTries
  /\ process' = [process EXCEPT ![p] =
       [pc |-> IF result = "ok" THEN "marking" ELSE "failing", todo |-> @.todo \ {n},
        hand |-> IF result = "ok" THEN n ELSE Failed(n)]]
  /\ IF result = "failed" THEN UNCHANGED <<told, repeats>> ELSE PersonSees(n)
  /\ late' = late + (IF result = "late" THEN 1 ELSE 0)
  /\ UNCHANGED <<world, outbox, crashes>>

\* A person who has read the list takes a notice off it.
Acknowledge(p, n) ==
  /\ p \in Terminals /\ Where(p) = "idle" /\ n \in Outstanding
  /\ process' = [process EXCEPT ![p] = [pc |-> "marking", todo |-> {}, hand |-> n]]
  /\ PersonSees(n)
  /\ UNCHANGED <<world, outbox, late, crashes>>

\* mark_delivered goes by the id: it reads the outbox again and marks what it finds there.
MarkDelivered(p) ==
  /\ Where(p) = "marking"
  /\ process' = [process EXCEPT ![p].pc = "closing",
                                ![p].hand = [outbox[Hand(p).id] EXCEPT !.delivered = TRUE]]
  /\ UNCHANGED <<world, outbox, history, crashes>>

\* append, and back to the rest of the pass
AfterAppend == [raising |-> "scanning", failing |-> "delivering", closing |-> "delivering"]
Append(p) ==
  /\ Where(p) \in DOMAIN AfterAppend
  /\ outbox' = [outbox EXCEPT ![Hand(p).id] = Hand(p)]
  /\ process' = [process EXCEPT ![p].pc = AfterAppend[@], ![p].hand = NoNotice]
  /\ UNCHANGED <<world, history, crashes>>

EndPass(p) ==
  /\ Where(p) \in {"scanning", "delivering"} /\ process[p].todo = {}
  /\ process' = [process EXCEPT ![p] = Idle]
  /\ UNCHANGED <<world, outbox, history, crashes>>

Crash(p) ==
  /\ crashes < MaxCrashes /\ Where(p) # "idle"
  /\ crashes' = crashes + 1
  /\ process' = [process EXCEPT ![p] = Idle]
  /\ UNCHANGED <<world, outbox, history>>

-----------------------------------------------------------------------------
Sends(p) == \E n \in process[p].todo, result \in {"ok", "failed", "late"} : Send(p, n, result)
Work(p) == \/ BeginScan(p) \/ Consider(p)
           \/ Take(p) \/ Sends(p) \/ MarkDelivered(p)
           \/ Append(p) \/ EndPass(p)

Next ==
  \/ \E s \in Places : Change(s)
  \/ \E p \in Processes : \/ Work(p) \/ Crash(p)
                          \/ \E n \in Outstanding : Acknowledge(p, n)

Spec == Init /\ [][Next]_vars

(* Whoever scans and whoever delivers keeps doing so, and the operator's command fails only *)
(* MaxTries times in a row.                                                                *)
FairSpec == Spec /\ \A p \in Processes : WF_vars(Work(p))
=============================================================================
