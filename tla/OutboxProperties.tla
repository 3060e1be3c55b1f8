--------------------------- MODULE OutboxProperties ---------------------------
(* What the outbox has to guarantee to the person it speaks to. *)
EXTENDS Outbox

Notices == [id : Ids, words : 0 .. MaxCount, about : 1 .. MaxNews, delivered : BOOLEAN, attempts : 0 .. MaxTries]

ASSUME NoNoticeIsNone == NoNotice \notin Notices

Desks == [pc : {"idle", "scanning", "delivering", "marking"} \cup DOMAIN AfterAppend,
          todo : SUBSET Notices, hand : Notices \cup {NoNotice}]

\* The world, the outbox and the processes' working memory are of their types.
TypeOK ==
  /\ world \in [Places -> [kind : Kinds \cup {"quiet"}, count : 0 .. MaxCount, news : 0 .. MaxNews]]
  /\ outbox \in [Ids -> Notices \cup {NoNotice}]
  /\ process \in [Processes -> Desks]
  /\ told \subseteq [id : Ids, words : 0 .. MaxCount, about : 1 .. MaxNews]
  /\ repeats \in Nat /\ late \in Nat /\ crashes \in 0 .. MaxCrashes

(* A notice marked delivered is one that somebody saw, in those words and about that     *)
(* matter: mark_delivered goes by an id whose fact may have changed since the send.      *)
DeliveredMeansTold ==
  \A id \in Ids : (Present(id) /\ outbox[id].delivered) => Told(outbox[id]) \in told

(* "The same fact is sent once, and sent again only if it changes": but for a command    *)
(* killed after it got through, and a process that died before it could write down that  *)
(* it had sent.                                                                          *)
SameFactOnce == repeats <= late + crashes

(* A person who is needed and stays needed gets to know it, in the words that are true,  *)
(* whatever was announced about that place before.                                       *)
StandingNeedsAreTold ==
  \A s \in Places : \A k \in Troubles[s], c \in 0 .. MaxCount :
    <>[](world[s].kind = k /\ world[s].count = c)
      => <>(\E t \in told : t.id = NoticeId(k, s) /\ t.words = c)

(* What the runbook says of every "somebody is needed" ("becomes a notice in the         *)
(* outbox"): each new matter, not only each new wording.                                 *)
EachMatterIsTold ==
  \A s \in Places : \A n \in 1 .. MaxNews :
    <>[](world[s].news = n /\ world[s].kind # "quiet") => <>(\E t \in told : t.id[2] = s /\ t.about = n)
=============================================================================
