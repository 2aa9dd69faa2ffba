-------------------------- MODULE AuditTrailProofs --------------------------
(***************************************************************************)
(* Proofs about AuditTrail: the engine with its trail is still the engine, *)
(* and AInv is inductive.  The trail of a job only ever grows by what one  *)
(* transaction published, so the proofs are about what becomes of a trail  *)
(* s that is extended to a trail u; the rest is that the events a          *)
(* transaction has inserted are those of the change it commits.            *)
(***************************************************************************)
EXTENDS AuditTrail, SettlementEngineProofs, SequenceTheorems

(* Abbreviations inside actions.                                           *)
USE DEF CreateIdempotent, GetNextAttemptNumber, FinishPayoutAttempt

-----------------------------------------------------------------------------
(* Trails that grow.                                                       *)

(* u is s followed by t.                                                   *)
Extended(u, s, t) ==
    /\ u \in Seq(Events) /\ s \in Seq(Events) /\ t \in Seq(Events)
    /\ Len(u) = Len(s) + Len(t)
    /\ \A i \in 1..Len(s) : u[i] = s[i]
    /\ \A i \in 1..Len(t) : u[Len(s) + i] = t[i]

(* SaveEvents extends each trail by the events inserted for its job.       *)
LEMMA ConcatExtends ==
    ASSUME NEW s \in Seq(Events), NEW t \in Seq(Events)
    PROVE  Extended(s \o t, s, t)
<1>1. /\ s \o t \in Seq(Events) /\ Len(s \o t) = Len(s) + Len(t)
      /\ \A i \in 1..(Len(s) + Len(t)) : (s \o t)[i] =
            IF i <= Len(s) THEN s[i] ELSE t[i - Len(s)]
    BY ConcatProperties
<1>2. Len(s) \in Nat /\ Len(t) \in Nat
    BY LenProperties
<1>3. \A i \in 1..Len(s) : (s \o t)[i] = s[i]
    BY <1>1, <1>2
<1>4. ASSUME NEW i \in 1..Len(t) PROVE (s \o t)[Len(s) + i] = t[i]
  <2>1. /\ Len(s) + i \in 1..(Len(s) + Len(t)) /\ ~(Len(s) + i <= Len(s))
        /\ Len(s) + i - Len(s) = i
      BY <1>2
  <2>2. QED
      BY <1>1, <2>1
<1>5. QED
    BY <1>1, <1>3, <1>4 DEF Extended

(* Two and three events in a row.                                          *)
LEMMA ConcatEvents ==
    ASSUME NEW c \in Events, NEW d \in Events, NEW e \in Events
    PROVE  /\ <<c>> \o <<d>> = <<c, d>>
           /\ <<c>> \o <<d, e>> = <<c, d, e>>
<1> DEFINE c1 == <<c>>  d1 == <<d>>  d2 == <<d, e>>
           u2 == <<c, d>>  u3 == <<c, d, e>>
<1>1. /\ c1 \in Seq(Events) /\ Len(c1) = 1 /\ c1[1] = c
      /\ d1 \in Seq(Events) /\ Len(d1) = 1 /\ d1[1] = d
      /\ d2 \in Seq(Events) /\ Len(d2) = 2 /\ d2[1] = d /\ d2[2] = e
      /\ u2 \in Seq(Events) /\ Len(u2) = 2 /\ u2[1] = c /\ u2[2] = d
      /\ u3 \in Seq(Events) /\ Len(u3) = 3 /\ u3[1] = c /\ u3[2] = d /\ u3[3] = e
    OBVIOUS
<1> HIDE DEF c1, d1, d2, u2, u3
<1>2. /\ Extended(c1 \o d1, c1, d1)
      /\ Extended(c1 \o d2, c1, d2)
    BY <1>1, ConcatExtends
<1>3. c1 \o d1 = u2
  <2>1. /\ c1 \o d1 \in Seq(Events) /\ Len(c1 \o d1) = Len(u2)
        /\ (c1 \o d1)[1] = c /\ (c1 \o d1)[2] = d
      BY <1>1, <1>2 DEF Extended
  <2>2. \A i \in 1..Len(c1 \o d1) : (c1 \o d1)[i] = u2[i]
      BY <1>1, <2>1
  <2>3. QED
      BY <1>1, <2>1, <2>2, SeqEqual
<1>4. c1 \o d2 = u3
  <2>1. /\ c1 \o d2 \in Seq(Events) /\ Len(c1 \o d2) = Len(u3)
        /\ (c1 \o d2)[1] = c /\ (c1 \o d2)[2] = d /\ (c1 \o d2)[3] = e
      BY <1>1, <1>2 DEF Extended
  <2>2. \A i \in 1..Len(c1 \o d2) : (c1 \o d2)[i] = u3[i]
      BY <1>1, <2>1
  <2>3. QED
      BY <1>1, <2>1, <2>2, SeqEqual
<1>5. QED
    BY <1>3, <1>4 DEF c1, d1, d2, u2, u3

(* A run stays a run when each new event may follow the one before it.     *)
LEMMA RunExtended ==
    ASSUME NEW u, NEW s, NEW t, Extended(u, s, t),
           IsARun(s),
           s = <<>> => u[1].action = "created",
           \A i \in (Len(s) + 1)..Len(u) :
              i = 1 \/ u[i].action \in Successors(u[i - 1].action)
    PROVE  IsARun(u)
<1>1. Len(s) \in Nat /\ Len(t) \in Nat /\ Len(u) = Len(s) + Len(t)
    BY LenProperties DEF Extended
<1>2. s # <<>> => 1 \in 1..Len(s)
    BY <1>1, EmptySeq DEF Extended
<1>3. u # <<>> => u[1].action = "created"
    BY <1>2 DEF Extended, IsARun
<1>4. ASSUME NEW i \in 2..Len(u)
      PROVE  u[i].action \in Successors(u[i - 1].action)
  <2>1. CASE i \in 2..Len(s)
      BY <1>1, <2>1 DEF Extended, IsARun
  <2>2. CASE i \in (Len(s) + 1)..Len(u)
      BY <1>1, <2>2
  <2>3. QED
      BY <1>1, <2>1, <2>2
<1>5. QED
    BY <1>3, <1>4 DEF IsARun

(* Events other than "claimed" leave what is told of the attempts alone.   *)
LEMMA AttemptsKept ==
    ASSUME NEW u, NEW s, NEW t, Extended(u, s, t),
           NEW history \in Seq(Outcomes),
           TellsTheAttempts(s, history),
           \A i \in 1..Len(t) : t[i].action # "claimed"
    PROVE  TellsTheAttempts(u, history)
<1> DEFINE old == {i \in DOMAIN s : s[i].action = "claimed"}
           new == {i \in DOMAIN u : u[i].action = "claimed"}
<1>1. /\ Len(s) \in Nat /\ Len(t) \in Nat /\ Len(u) = Len(s) + Len(t)
      /\ DOMAIN s = 1..Len(s) /\ DOMAIN u = 1..Len(u)
    BY LenProperties DEF Extended
<1>2. \A i \in 1..Len(s) : u[i] = s[i] /\ i \in DOMAIN u
    BY <1>1 DEF Extended
<1>3. new = old
  <2>1. ASSUME NEW i \in DOMAIN u, i \notin 1..Len(s)
        PROVE  u[i].action # "claimed"
    <3>1. i - Len(s) \in 1..Len(t) /\ Len(s) + (i - Len(s)) = i
        BY <1>1, <2>1
    <3>2. QED
        BY <3>1 DEF Extended
  <2>2. QED
      BY <1>1, <1>2, <2>1
<1>4. ASSUME NEW i \in old, NEW k \in DOMAIN history, OutcomeTold(s, i, history[k])
      PROVE  OutcomeTold(u, i, history[k])
    BY <1>1, <1>2, <1>4 DEF OutcomeTold
<1>5. \A i \in new : u[i].n = s[i].n
    BY <1>1, <1>2, <1>3
<1>6. QED
    BY <1>3, <1>4, <1>5 DEF TellsTheAttempts

(* The events of one attempt tell that attempt: the "claimed" event has    *)
(* its number, and the next event its outcome.                             *)
LEMMA AttemptTold ==
    ASSUME NEW u, NEW s, NEW t, Extended(u, s, t),
           NEW history \in Seq(Outcomes), NEW result \in Outcomes,
           TellsTheAttempts(s, history),
           Len(t) >= 2,
           t[1].action = "claimed", t[1].n = Len(history) + 1,
           \A i \in 2..Len(t) : t[i].action # "claimed",
           OutcomeTold(t, 1, result)
    PROVE  TellsTheAttempts(u, Append(history, result))
<1> DEFINE old == {i \in DOMAIN s : s[i].action = "claimed"}
           new == {i \in DOMAIN u : u[i].action = "claimed"}
           longer == Append(history, result)
           c == Len(s) + 1
<1>1. /\ Len(s) \in Nat /\ Len(t) \in Nat /\ Len(u) = Len(s) + Len(t)
      /\ DOMAIN s = 1..Len(s) /\ DOMAIN u = 1..Len(u) /\ DOMAIN t = 1..Len(t)
    BY LenProperties DEF Extended
<1>2. \A i \in 1..Len(s) : u[i] = s[i] /\ i \in DOMAIN u
    BY <1>1 DEF Extended
<1>3. /\ c \in DOMAIN u /\ u[c] = t[1]
      /\ c + 1 \in DOMAIN u /\ u[c + 1] = t[2]
  <2>1. 1 \in 1..Len(t) /\ 2 \in 1..Len(t) /\ Len(s) + 2 = c + 1
      BY <1>1
  <2>2. QED
      BY <1>1, <2>1 DEF Extended
<1>4. new = old \union {c}
  <2>1. ASSUME NEW i \in DOMAIN u, i \notin 1..Len(s), i # c
        PROVE  u[i].action # "claimed"
    <3>1. i - Len(s) \in 2..Len(t) /\ Len(s) + (i - Len(s)) = i
        BY <1>1, <2>1
    <3>2. u[i] = t[i - Len(s)]
        BY <1>1, <3>1 DEF Extended
    <3>3. QED
        BY <3>1, <3>2
  <2>2. QED
      BY <1>1, <1>2, <1>3, <2>1
<1>5. /\ Len(history) \in Nat
      /\ DOMAIN history = 1..Len(history)
      /\ DOMAIN longer = 1..(Len(history) + 1)
      /\ longer[Len(history) + 1] = result
      /\ \A k \in 1..Len(history) : longer[k] = history[k]
    OBVIOUS
<1>6. ASSUME NEW i \in old, NEW k \in DOMAIN history, OutcomeTold(s, i, history[k])
      PROVE  OutcomeTold(u, i, longer[k])
    BY <1>1, <1>2, <1>5, <1>6 DEF OutcomeTold
<1>7. OutcomeTold(u, c, result)
    BY <1>1, <1>3 DEF OutcomeTold
<1>8. \A i \in old : u[i].n = s[i].n /\ i < c
    BY <1>1, <1>2
<1>9. \A k \in DOMAIN longer : \E i \in new :
         u[i].n = k /\ OutcomeTold(u, i, longer[k])
  <2> SUFFICES ASSUME NEW k \in DOMAIN longer
               PROVE  \E i \in new : u[i].n = k /\ OutcomeTold(u, i, longer[k])
      OBVIOUS
  <2>1. CASE k \in DOMAIN history
    <3>1. PICK i \in old : s[i].n = k /\ OutcomeTold(s, i, history[k])
        BY <2>1 DEF TellsTheAttempts
    <3>2. OutcomeTold(u, i, longer[k])
        BY <1>6, <2>1, <3>1
    <3>3. QED
        BY <1>4, <1>8, <3>1, <3>2
  <2>2. CASE k = Len(history) + 1
    <3>1. c \in new /\ u[c].n = k /\ longer[k] = result
        BY <1>3, <1>4, <1>5, <2>2
    <3>2. QED
        BY <1>7, <3>1
  <2>3. QED
      BY <1>5, <2>1, <2>2
<1>10. \A i \in old : u[i].n \in 1..Len(history)
    BY <1>5, <1>8 DEF TellsTheAttempts
<1>11. \A i \in new : u[i].n \in DOMAIN longer
    BY <1>3, <1>4, <1>5, <1>10
<1>12. \A i, j \in new : i < j => u[i].n < u[j].n
  <2> SUFFICES ASSUME NEW i \in new, NEW j \in new, i < j
               PROVE  u[i].n < u[j].n
      OBVIOUS
  <2>1. i \in old /\ i # c
      BY <1>1, <1>4, <1>8
  <2>2. CASE j \in old
      BY <1>8, <2>1, <2>2 DEF TellsTheAttempts
  <2>3. CASE j = c
    <3>1. u[i].n \in 1..Len(history) /\ u[j].n = Len(history) + 1
        BY <1>3, <1>10, <2>1, <2>3
    <3>2. QED
        BY <1>5, <3>1
  <2>4. QED
      BY <1>4, <2>2, <2>3
<1>13. QED
    BY <1>9, <1>11, <1>12 DEF TellsTheAttempts

(* Events other than "failed" keep the retry_count a trail tells.          *)
LEMMA RetryKept ==
    ASSUME NEW u, NEW s, NEW t, Extended(u, s, t),
           NEW row, NEW next,
           TellsTheRow(s, row),
           \A i \in 1..Len(t) : t[i].action # "failed",
           next.retry = row.retry,
           StatusTold(u) = next.status
    PROVE  TellsTheRow(u, next)
<1> DEFINE old == {i \in DOMAIN s : s[i].action = "failed"}
           new == {i \in DOMAIN u : u[i].action = "failed"}
<1>1. /\ Len(s) \in Nat /\ Len(t) \in Nat /\ Len(u) = Len(s) + Len(t)
      /\ DOMAIN s = 1..Len(s) /\ DOMAIN u = 1..Len(u)
    BY LenProperties DEF Extended
<1>2. \A i \in 1..Len(s) : u[i] = s[i] /\ i \in DOMAIN u
    BY <1>1 DEF Extended
<1>3. new = old
  <2>1. ASSUME NEW i \in DOMAIN u, i \notin 1..Len(s)
        PROVE  u[i].action # "failed"
    <3>1. i - Len(s) \in 1..Len(t) /\ Len(s) + (i - Len(s)) = i
        BY <1>1, <2>1
    <3>2. QED
        BY <3>1 DEF Extended
  <2>2. QED
      BY <1>1, <1>2, <2>1
<1>4. \A i \in new : u[i].n = s[i].n
    BY <1>1, <1>2, <1>3
<1>5. QED
    BY <1>3, <1>4 DEF TellsTheRow

(* A "failed" event at the end of a trail tells the retry_count it counts. *)
LEMMA FailureTold ==
    ASSUME NEW u, NEW s, NEW t, Extended(u, s, t),
           NEW next,
           Len(t) = 2,
           t[2].action = "failed", t[2].n = next.retry,
           next.status = "failed"
    PROVE  TellsTheRow(u, next)
<1> DEFINE new == {i \in DOMAIN u : u[i].action = "failed"}
           e == Len(s) + 2
<1>1. /\ Len(s) \in Nat /\ Len(u) = e /\ DOMAIN u = 1..Len(u)
    BY LenProperties DEF Extended
<1>2. e \in DOMAIN u /\ u[e] = t[2]
    BY <1>1 DEF Extended
<1>3. u # <<>>
    BY <1>1
<1>4. StatusTold(u) = "failed"
    BY <1>1, <1>2, <1>3 DEF StatusTold
<1>5. e \in new /\ \A i \in new : i \in Nat /\ i <= e
    BY <1>1, <1>2
<1>6. ASSUME NEW i \in new, \A j \in new : j <= i PROVE u[i].n = next.retry
  <2>1. i = e
      BY <1>1, <1>5, <1>6
  <2>2. QED
      BY <1>2, <2>1
<1>7. QED
    BY <1>4, <1>5, <1>6 DEF TellsTheRow

-----------------------------------------------------------------------------
(* What each kind of transaction makes of a job's trail.                   *)

(* The last event of a trail, and the status it gives.                     *)
LEMMA LastEvent ==
    ASSUME NEW u \in Seq(Events), NEW n \in Nat \ {0}, Len(u) = n
    PROVE  /\ u # <<>>
           /\ StatusTold(u) =
                 IF u[n].action \in {"succeeded", "failed", "dead_letter"}
                 THEN u[n].action ELSE "pending"
           /\ EndsATransaction(u) <=>
                 u[n].action \notin {"claimed", "ledger_posted"}
<1>1. u # <<>>
    OBVIOUS
<1>2. QED
    BY <1>1 DEF StatusTold, EndsATransaction

(* A claim may follow the trail of a job that is pending or failed.        *)
LEMMA ClaimFollows ==
    ASSUME NEW s \in Seq(Events), EndsATransaction(s),
           StatusTold(s) \in {"pending", "failed"}
    PROVE  /\ Len(s) \in Nat \ {0}
           /\ "claimed" \in Successors(s[Len(s)].action)
<1>1. s # <<>>
    BY DEF StatusTold
<1>2. Len(s) \in Nat \ {0}
    BY <1>1, EmptySeq
<1>3. s[Len(s)].action \in EventActions
  <2>1. Len(s) \in 1..Len(s)
      BY <1>2
  <2>2. s[Len(s)] \in Events
      BY <2>1, ElementOfSeq
  <2>3. QED
      BY <2>2 DEF Events
<1>4. s[Len(s)].action \notin {"claimed", "ledger_posted", "succeeded", "dead_letter"}
    BY <1>2, LastEvent
<1>5. QED
    BY <1>2, <1>3, <1>4 DEF Successors, EventActions

(* TickCommit: the first event of a job.                                   *)
LEMMA CreatedWellTold ==
    ASSUME NEW u, NEW s, NEW row, NEW next, NEW history \in Seq(Outcomes),
           Extended(u, s, <<Event("created", 0)>>),
           WellTold(s, row, history),
           row.status = "absent", next.status = "pending",
           next.retry = row.retry
    PROVE  WellTold(u, next, history)
<1> DEFINE t == <<Event("created", 0)>>
<1>1. s = <<>> /\ Len(s) = 0
  <2>1. StatusTold(s) = "absent"
      BY DEF WellTold, TellsTheRow
  <2>2. QED
      BY <2>1 DEF StatusTold
<1>2. u \in Seq(Events) /\ Len(u) = 1 /\ u[1].action = "created"
    BY <1>1 DEF Extended, Event
<1>3. StatusTold(u) = "pending" /\ EndsATransaction(u)
  <2>1. 1 \in Nat \ {0}
      OBVIOUS
  <2>2. QED
      BY <1>2, <2>1, LastEvent
<1>4. \A i \in 1..Len(t) : t[i].action = "created"
    BY DEF Event
<1>5. TellsTheRow(u, next)
    BY <1>3, <1>4, RetryKept DEF WellTold
<1>6. TellsTheAttempts(u, history)
    BY <1>4, AttemptsKept DEF WellTold
<1>7. IsARun(u)
    BY <1>2 DEF IsARun
<1>8. QED
    BY <1>3, <1>5, <1>6, <1>7 DEF WellTold

(* AdminCommit: "replayed" follows a dead letter, "requeued" a failure.    *)
LEMMA ReturnedWellTold ==
    ASSUME NEW u, NEW s, NEW row, NEW history \in Seq(Outcomes),
           NEW op \in AdminOps,
           Extended(u, s, <<AdminEvent(op)>>),
           WellTold(s, row, history),
           row.status = StatusFor(op)
    PROVE  WellTold(u, BackToPending(row), history)
<1> DEFINE t == <<AdminEvent(op)>>
           returned == IF op = "replay" THEN "replayed" ELSE "requeued"
<1>0. s \in Seq(Events) /\ u \in Seq(Events)
    BY DEF Extended
<1>1. /\ StatusTold(s) = StatusFor(op)
      /\ StatusFor(op) \in {"dead_letter", "failed"}
    BY DEF WellTold, TellsTheRow, StatusFor
<1>2. Len(s) \in Nat \ {0} /\ s # <<>>
    BY <1>0, <1>1, EmptySeq DEF StatusTold
<1>3. s[Len(s)].action = StatusFor(op)
    BY <1>0, <1>1, <1>2, LastEvent
<1>4. /\ Len(u) = Len(s) + 1 /\ u[Len(s)] = s[Len(s)]
      /\ u[Len(s) + 1].action = returned
    BY <1>2 DEF Extended, AdminEvent, Event
<1>5. returned \in Successors(StatusFor(op))
    BY DEF Successors, StatusFor, AdminOps
<1>6. StatusTold(u) = "pending" /\ EndsATransaction(u)
    BY <1>0, <1>2, <1>4, LastEvent
<1>7. \A i \in 1..Len(t) : t[i].action \notin {"failed", "claimed"}
    BY DEF AdminEvent, Event
<1>8. TellsTheRow(u, BackToPending(row))
  <2>1. /\ BackToPending(row).retry = row.retry
        /\ BackToPending(row).status = "pending"
      BY DEF BackToPending
  <2>2. QED
      BY <1>6, <1>7, <2>1, RetryKept DEF WellTold
<1>9. TellsTheAttempts(u, history)
    BY <1>7, AttemptsKept DEF WellTold
<1>10. IsARun(u)
  <2>1. \A i \in (Len(s) + 1)..Len(u) :
           i = 1 \/ u[i].action \in Successors(u[i - 1].action)
      BY <1>2, <1>3, <1>4, <1>5
  <2>2. QED
      BY <1>2, <2>1, RunExtended DEF WellTold
<1>11. QED
    BY <1>6, <1>8, <1>9, <1>10 DEF WellTold

(* WorkerCommit after completeSuccess.                                     *)
LEMMA SucceededWellTold ==
    ASSUME NEW u, NEW s, NEW row, NEW history \in Seq(Outcomes),
           Extended(u, s, <<Event("claimed", Len(history) + 1),
                            Event("ledger_posted", 0), Event("succeeded", 0)>>),
           WellTold(s, row, history),
           row.status \in {"pending", "failed"}
    PROVE  WellTold(u, MarkJobSucceeded(row), Append(history, "ok"))
<1> DEFINE t == <<Event("claimed", Len(history) + 1),
                  Event("ledger_posted", 0), Event("succeeded", 0)>>
<1>0. s \in Seq(Events) /\ u \in Seq(Events)
    BY DEF Extended
<1>1. /\ Len(s) \in Nat \ {0} /\ s # <<>>
      /\ "claimed" \in Successors(s[Len(s)].action)
    BY <1>0, ClaimFollows, EmptySeq DEF WellTold, TellsTheRow
<1>2. /\ Len(t) = 3
      /\ t[1] = Event("claimed", Len(history) + 1)
      /\ t[2] = Event("ledger_posted", 0) /\ t[3] = Event("succeeded", 0)
    OBVIOUS
<1>3. /\ Len(u) = Len(s) + 3 /\ u[Len(s)] = s[Len(s)]
      /\ u[Len(s) + 1] = t[1] /\ u[Len(s) + 2] = t[2] /\ u[Len(s) + 3] = t[3]
    BY <1>1, <1>2 DEF Extended
<1>4. StatusTold(u) = "succeeded" /\ EndsATransaction(u)
    BY <1>0, <1>1, <1>2, <1>3, LastEvent DEF Event
<1>5. \A i \in 1..Len(t) : t[i].action # "failed"
    BY <1>2 DEF Event
<1>6. TellsTheRow(u, MarkJobSucceeded(row))
  <2>1. /\ MarkJobSucceeded(row).retry = row.retry
        /\ MarkJobSucceeded(row).status = "succeeded"
      BY DEF MarkJobSucceeded, WithStatus
  <2>2. QED
      BY <1>4, <1>5, <2>1, RetryKept DEF WellTold
<1>7. TellsTheAttempts(u, Append(history, "ok"))
  <2>1. /\ t[1].action = "claimed" /\ t[1].n = Len(history) + 1
        /\ \A i \in 2..Len(t) : t[i].action # "claimed"
      BY <1>2 DEF Event
  <2>2. OutcomeTold(t, 1, "ok")
      BY <1>2 DEF OutcomeTold, Event
  <2>3. QED
      BY <1>2, <2>1, <2>2, AttemptTold DEF WellTold, Outcomes
<1>8. IsARun(u)
  <2>1. /\ u[Len(s) + 1].action \in Successors(u[Len(s)].action)
        /\ u[Len(s) + 2].action \in Successors(u[Len(s) + 1].action)
        /\ u[Len(s) + 3].action \in Successors(u[Len(s) + 2].action)
      BY <1>1, <1>2, <1>3 DEF Event, Successors
  <2>2. \A i \in (Len(s) + 1)..Len(u) : u[i].action \in Successors(u[i - 1].action)
    <3> SUFFICES ASSUME NEW i \in (Len(s) + 1)..Len(u)
                 PROVE  u[i].action \in Successors(u[i - 1].action)
        OBVIOUS
    <3>1. \/ i = Len(s) + 1 /\ i - 1 = Len(s)
          \/ i = Len(s) + 2 /\ i - 1 = Len(s) + 1
          \/ i = Len(s) + 3 /\ i - 1 = Len(s) + 2
        BY <1>1, <1>3
    <3>2. QED
        BY <2>1, <3>1
  <2>3. QED
      BY <1>1, <2>2, RunExtended DEF WellTold
<1>9. QED
    BY <1>4, <1>6, <1>7, <1>8 DEF WellTold

(* WorkerCommit after handleFailure, whichever branch it took.             *)
LEMMA FailedWellTold ==
    ASSUME NEW u, NEW s, NEW row, NEW next, NEW history \in Seq(Outcomes),
           NEW result \in Outcomes, NEW e,
           Extended(u, s, <<Event("claimed", Len(history) + 1), e>>),
           WellTold(s, row, history),
           row.status \in {"pending", "failed"}, result # "ok",
           \/ /\ e = Event("dead_letter", 0)
              /\ next = MarkJobDeadLetter(row)
           \/ /\ e = Event("failed", next.retry)
              /\ next = MarkJobFailedRetryable(row)
              /\ result # "terminal"
    PROVE  WellTold(u, next, Append(history, result))
<1> DEFINE t == <<Event("claimed", Len(history) + 1), e>>
<1>0. s \in Seq(Events) /\ u \in Seq(Events)
    BY DEF Extended
<1>1. /\ Len(s) \in Nat \ {0} /\ s # <<>>
      /\ "claimed" \in Successors(s[Len(s)].action)
    BY <1>0, ClaimFollows, EmptySeq DEF WellTold, TellsTheRow
<1>2. /\ Len(t) = 2 /\ t[1] = Event("claimed", Len(history) + 1) /\ t[2] = e
    OBVIOUS
<1>3. /\ Len(u) = Len(s) + 2 /\ u[Len(s)] = s[Len(s)]
      /\ u[Len(s) + 1] = t[1] /\ u[Len(s) + 2] = e
    BY <1>1, <1>2 DEF Extended
<1>4. e.action \in {"failed", "dead_letter"} /\ e.action = next.status
    BY DEF Event, MarkJobDeadLetter, MarkJobFailedRetryable, WithStatus
<1>5. StatusTold(u) = next.status /\ EndsATransaction(u)
    BY <1>0, <1>1, <1>3, <1>4, LastEvent
<1>6. TellsTheRow(u, next)
  <2>1. CASE e = Event("dead_letter", 0) /\ next = MarkJobDeadLetter(row)
    <3>1. next.retry = row.retry
        BY <2>1 DEF MarkJobDeadLetter, WithStatus
    <3>2. \A i \in 1..Len(t) : t[i].action # "failed"
        BY <1>2, <2>1 DEF Event
    <3>3. QED
        BY <1>5, <3>1, <3>2, RetryKept DEF WellTold
  <2>2. CASE e = Event("failed", next.retry)
    <3>1. t[2].action = "failed" /\ t[2].n = next.retry /\ next.status = "failed"
        BY <1>2, <1>4, <2>2 DEF Event
    <3>2. QED
        BY <1>2, <3>1, FailureTold
  <2>3. QED
      BY <2>1, <2>2
<1>7. TellsTheAttempts(u, Append(history, result))
  <2>1. /\ t[1].action = "claimed" /\ t[1].n = Len(history) + 1
        /\ \A i \in 2..Len(t) : t[i].action # "claimed"
      BY <1>2, <1>4 DEF Event
  <2>2. OutcomeTold(t, 1, result)
      BY <1>2, <1>4 DEF OutcomeTold, Outcomes, Event
  <2>3. Extended(u, s, t) /\ TellsTheAttempts(s, history) /\ Len(t) >= 2
      BY <1>2 DEF WellTold
  <2> HIDE DEF t
  <2>4. QED
      BY <2>1, <2>2, <2>3, AttemptTold
<1>8. IsARun(u)
  <2>1. /\ u[Len(s) + 1].action \in Successors(u[Len(s)].action)
        /\ u[Len(s) + 2].action \in Successors(u[Len(s) + 1].action)
      BY <1>1, <1>2, <1>3, <1>4 DEF Event, Successors
  <2>2. \A i \in (Len(s) + 1)..Len(u) : u[i].action \in Successors(u[i - 1].action)
      BY <1>1, <1>3, <2>1
  <2>3. QED
      BY <1>1, <2>2, RunExtended DEF WellTold
<1>9. QED
    BY <1>5, <1>6, <1>7, <1>8 DEF WellTold

-----------------------------------------------------------------------------
(* What Publish, SaveEvents and LoseEvents do.                             *)

UnsavedType == [Processes -> [Maturities -> Seq(Events)]]

(* Publish adds events to one open transaction, which then holds f.        *)
LEMMA Published ==
    ASSUME AuditTypeOK, NEW p \in Processes,
           NEW f \in [Maturities -> Seq(Events)],
           unsaved' = [unsaved EXCEPT ![p] = f]
    PROVE  /\ unsaved' \in UnsavedType
           /\ \A q \in Processes : q # p => unsaved'[q] = unsaved[q]
           /\ unsaved'[p] = f
BY DEF AuditTypeOK, UnsavedType

(* A rollback forgets the events of one transaction.                       *)
LEMMA Lost ==
    ASSUME AuditTypeOK, NEW p \in Processes, LoseEvents(p)
    PROVE  /\ audit' = audit
           /\ unsaved' \in UnsavedType
           /\ \A q \in Processes : q # p => unsaved'[q] = unsaved[q]
           /\ unsaved'[p] = NoEvents
<1>1. NoEvents \in [Maturities -> Seq(Events)]
    BY EmptySeq DEF NoEvents
<1>2. QED
    BY <1>1 DEF AuditTypeOK, UnsavedType, LoseEvents

(* A commit appends them to the trails they are about.                     *)
LEMMA Saved ==
    ASSUME AuditTypeOK, NEW p \in Processes, SaveEvents(p)
    PROVE  /\ audit' \in [Maturities -> Seq(Events)]
           /\ \A m \in Maturities :
                 /\ Extended(audit'[m], audit[m], unsaved[p][m])
                 /\ unsaved[p][m] = <<>> => audit'[m] = audit[m]
           /\ unsaved' \in UnsavedType
           /\ \A q \in Processes : q # p => unsaved'[q] = unsaved[q]
           /\ unsaved'[p] = NoEvents
<1>1. NoEvents \in [Maturities -> Seq(Events)]
    BY EmptySeq DEF NoEvents
<1>2. \A m \in Maturities : /\ audit[m] \in Seq(Events)
                             /\ unsaved[p][m] \in Seq(Events)
                             /\ audit'[m] = audit[m] \o unsaved[p][m]
    BY DEF AuditTypeOK, SaveEvents
<1>3. \A m \in Maturities : Extended(audit'[m], audit[m], unsaved[p][m])
    BY <1>2, ConcatExtends
<1>4. \A m \in Maturities : unsaved[p][m] = <<>> => audit'[m] = audit[m]
    BY <1>2, ConcatEmptySeq
<1>5. audit' \in [Maturities -> Seq(Events)]
    BY <1>3 DEF SaveEvents, Extended
<1>6. QED
    BY <1>1, <1>3, <1>4, <1>5 DEF AuditTypeOK, UnsavedType, SaveEvents

(* The trail's types follow from the engine's and its own.                 *)
LEMMA TrailTypes ==
    ASSUME IInv', audit' \in [Maturities -> Seq(Events)], unsaved' \in UnsavedType
    PROVE  AuditTypeOK'
BY DEF AuditTypeOK, IInv, UnsavedType

-----------------------------------------------------------------------------
(* A step of one process leaves the others' transactions alone.            *)

(* The events of a transaction that takes no step are still its own.       *)
LEMMA TellsKept ==
    /\ \A w \in Workers : /\ WorkerTells(w)
                          /\ worker'[w] = worker[w] /\ unsaved'[w] = unsaved[w]
                          => WorkerTells(w)'
    /\ \A s \in Schedulers : /\ SchedTells(s)
                             /\ sched'[s] = sched[s] /\ unsaved'[s] = unsaved[s]
                             => SchedTells(s)'
    /\ \A a \in Admins : /\ AdminTells(a)
                         /\ admin'[a] = admin[a] /\ unsaved'[a] = unsaved[a]
                         => AdminTells(a)'
BY DEF WorkerTells, SchedTells, AdminTells

(* So after a step of one worker transaction only its own events are in doubt.*)
LEMMA WorkerSteps ==
    ASSUME UnsavedInv, NEW w \in Workers, UNCHANGED <<sched, admin>>,
           \A v \in Workers : v # w => worker'[v] = worker[v],
           \A p \in Processes : p # w => unsaved'[p] = unsaved[p],
           WorkerTells(w)'
    PROVE  UnsavedInv'
<1>1. /\ \A v \in Workers : v # w => unsaved'[v] = unsaved[v]
      /\ \A s \in Schedulers : unsaved'[s] = unsaved[s]
      /\ \A a \in Admins : unsaved'[a] = unsaved[a]
    BY ProcessesAssumption DEF Processes
<1>2. QED
    BY <1>1, TellsKept DEF UnsavedInv

(* So after a step of one tick or a reaper run only its own events are in doubt.*)
LEMMA SchedSteps ==
    ASSUME UnsavedInv, NEW s \in Schedulers, UNCHANGED <<worker, admin>>,
           \A t \in Schedulers : t # s => sched'[t] = sched[t],
           \A p \in Processes : p # s => unsaved'[p] = unsaved[p],
           SchedTells(s)'
    PROVE  UnsavedInv'
<1>1. /\ \A t \in Schedulers : t # s => unsaved'[t] = unsaved[t]
      /\ \A w \in Workers : unsaved'[w] = unsaved[w]
      /\ \A a \in Admins : unsaved'[a] = unsaved[a]
    BY ProcessesAssumption DEF Processes
<1>2. QED
    BY <1>1, TellsKept DEF UnsavedInv

(* So after a step of one replay or requeue only its own events are in doubt.*)
LEMMA AdminSteps ==
    ASSUME UnsavedInv, NEW a \in Admins, UNCHANGED <<worker, sched>>,
           \A b \in Admins : b # a => admin'[b] = admin[b],
           \A p \in Processes : p # a => unsaved'[p] = unsaved[p],
           AdminTells(a)'
    PROVE  UnsavedInv'
<1>1. /\ \A b \in Admins : b # a => unsaved'[b] = unsaved[b]
      /\ \A w \in Workers : unsaved'[w] = unsaved[w]
      /\ \A s \in Schedulers : unsaved'[s] = unsaved[s]
    BY ProcessesAssumption DEF Processes
<1>2. QED
    BY <1>1, TellsKept DEF UnsavedInv

(* An idle transaction has inserted nothing.                               *)
LEMMA IdleTells ==
    /\ \A w \in Workers : worker'[w] = IdleWorker /\ unsaved'[w] = NoEvents
                               => WorkerTells(w)'
    /\ \A s \in Schedulers : sched'[s] = IdleSched /\ unsaved'[s] = NoEvents
                               => SchedTells(s)'
    /\ \A a \in Admins : admin'[a] = IdleAdmin /\ unsaved'[a] = NoEvents
                               => AdminTells(a)'
<1>1. \A w \in Workers : worker'[w] = IdleWorker /\ unsaved'[w] = NoEvents
                               => WorkerTells(w)'
    BY NoJobAssumption DEF WorkerTells, IdleWorker, NoEvents
<1>2. \A s \in Schedulers : sched'[s] = IdleSched /\ unsaved'[s] = NoEvents
                               => SchedTells(s)'
    BY DEF SchedTells, IdleSched, NoEvents
<1>3. \A a \in Admins : admin'[a] = IdleAdmin /\ unsaved'[a] = NoEvents
                               => AdminTells(a)'
    BY DEF AdminTells, IdleAdmin, NoEvents
<1>4. QED
    BY <1>1, <1>2, <1>3

(* Trails stay true of tables that do not change.                          *)
LEMMA TrailKept ==
    ASSUME TrailInv, UNCHANGED <<audit, job, attempts>>
    PROVE  TrailInv'
BY DEF TrailInv

(* A step that commits nothing keeps AInv if the stepping process's events *)
(* still say how far it has got.                                           *)
LEMMA NothingCommitted ==
    ASSUME AInv, IInv', UnsavedInv', unsaved' \in UnsavedType,
           UNCHANGED <<audit, job, attempts>>
    PROVE  AInv'
<1>1. audit' \in [Maturities -> Seq(Events)]
    BY DEF AInv, AuditTypeOK
<1>2. QED
    BY <1>1, TrailTypes, TrailKept DEF AInv

-----------------------------------------------------------------------------
(* Worker.                                                                 *)

(* A rollback, of whatever kind, forgets the worker's events.              *)
LEMMA WorkerForgets ==
    ASSUME AInv, IInv', NEW w \in Workers,
           PostingRejected(w) \/ WorkerRollback(w), LoseEvents(w)
    PROVE  AInv'
<1>1. /\ UNCHANGED <<sched, admin, job, attempts>> /\ worker'[w] = IdleWorker
      /\ \A v \in Workers : v # w => worker'[v] = worker[v]
    BY DEF AInv, IInv, TypeOK, PostingRejected, WorkerRollback, tables
<1>2. /\ audit' = audit /\ unsaved' \in UnsavedType
      /\ \A q \in Processes : q # w => unsaved'[q] = unsaved[q]
      /\ unsaved'[w] = NoEvents
    BY Lost DEF AInv, Processes
<1>3. UnsavedInv'
    BY <1>1, <1>2, IdleTells, WorkerSteps DEF AInv
<1>4. QED
    BY <1>1, <1>2, <1>3, NothingCommitted

(* The events of a worker whose program counter is not yet "ready".        *)
LEMMA WorkerQuiet ==
    ASSUME AInv, IInv', NEW w \in Workers,
           Execute(w) \/ PostSettlement(w), UNCHANGED trail
    PROVE  AInv'
<1>1. /\ UNCHANGED <<sched, admin, job, attempts>>
      /\ \A v \in Workers : v # w => worker'[v] = worker[v]
      /\ worker'[w].job = worker[w].job
      /\ worker'[w].attempt = worker[w].attempt
      /\ worker[w].pc # "ready" /\ worker'[w].pc # "ready"
    BY DEF AInv, IInv, TypeOK, WorkerStates, Execute, PostSettlement, tables
<1>2. audit' = audit /\ unsaved' = unsaved /\ unsaved' \in UnsavedType
    BY DEF AInv, AuditTypeOK, UnsavedType, trail
<1>3. WorkerEvents(worker'[w]) = WorkerEvents(worker[w])
    BY <1>1 DEF WorkerEvents
<1>4. WorkerTells(w)'
    BY <1>1, <1>2, <1>3 DEF AInv, UnsavedInv, WorkerTells
<1>5. UnsavedInv'
    BY <1>1, <1>2, <1>4, WorkerSteps DEF AInv
<1>6. QED
    BY <1>1, <1>2, <1>5, NothingCommitted

(* The first event of a worker's transaction numbers the attempt.          *)
LEMMA ClaimAInv ==
    ASSUME AInv, IInv', NEW w \in Workers, NEW m \in Maturities,
           Claim(w, m), PublishClaimed(w, m)
    PROVE  AInv'
<1> DEFINE e == Event("claimed", Len(attempts[m]) + 1)
<1>1. /\ UNCHANGED <<sched, admin, job, attempts>>
      /\ \A v \in Workers : v # w => worker'[v] = worker[v]
      /\ worker'[w].job = m /\ worker'[w].pc = "claimed"
      /\ worker'[w].attempt = Len(attempts[m]) + 1
  <2>1. worker \in [Workers -> WorkerStates]
      BY DEF AInv, IInv, TypeOK
  <2>2. QED
      BY <2>1 DEF Claim, IdleWorker, tables
<1>2. <<e>> \in Seq(Events)
    BY DEF AInv, IInv, TypeOK, Event, Events, EventActions
<1>3. unsaved[w] = NoEvents
  <2>1. worker[w].job = NoJob
      BY DEF AInv, IInv, WorkersInv, Claim, IdleWorker
  <2>2. QED
      BY <2>1, NoJobAssumption DEF AInv, UnsavedInv, WorkerTells, NoEvents
<1> DEFINE f == [k \in Maturities |-> IF k = m THEN <<e>> ELSE <<>>]
<1>4. f \in [Maturities -> Seq(Events)]
    BY <1>2, EmptySeq
<1>5. unsaved' = [unsaved EXCEPT ![w] = f] /\ audit' = audit
  <2>1. <<>> \o <<e>> = <<e>>
      BY <1>2, ConcatEmptySeq
  <2>2. [k \in Maturities |-> IF k \in {m} THEN unsaved[w][k] \o <<e>>
                                           ELSE unsaved[w][k]] = f
      BY <1>3, <2>1 DEF NoEvents
  <2>3. QED
      BY <2>2 DEF PublishClaimed, Publish
<1>6. WorkerEvents(worker'[w]) = <<e>>
    BY <1>1 DEF WorkerEvents
<1>7. WorkerTells(w)' <=> unsaved'[w] = f
    BY <1>1, <1>6 DEF WorkerTells
<1> HIDE DEF f
<1>8. /\ unsaved' \in UnsavedType /\ unsaved'[w] = f
      /\ \A q \in Processes : q # w => unsaved'[q] = unsaved[q]
    BY <1>4, <1>5, Published DEF AInv, Processes
<1>9. UnsavedInv'
    BY <1>1, <1>7, <1>8, WorkerSteps DEF AInv
<1>10. QED
    BY <1>1, <1>5, <1>8, <1>9, NothingCommitted

(* completeSuccess publishes the posting and the success after the claim,  *)
(* on a row image it has marked succeeded.                                 *)
LEMMA MarkSettledAInv ==
    ASSUME AInv, IInv', NEW w \in Workers, MarkSettled(w), PublishSucceeded(w)
    PROVE  AInv'
<1> DEFINE c == Event("claimed", worker[w].attempt)
           t == <<Event("ledger_posted", 0), Event("succeeded", 0)>>
           m == worker[w].job
<1>1. /\ UNCHANGED <<sched, admin, job, attempts>>
      /\ \A v \in Workers : v # w => worker'[v] = worker[v]
      /\ worker'[w].job = m /\ worker'[w].pc = "ready"
      /\ worker'[w].attempt = worker[w].attempt
      /\ worker'[w].row = worker[w].row /\ worker[w].pc = "posted"
    BY DEF AInv, IInv, TypeOK, WorkerStates, MarkSettled, tables
<1>2. worker'[w].row.status = "succeeded" /\ m \in Maturities
  <2>1. WorkerKnows(w)
      BY <1>1 DEF AInv, IInv, WorkersInv
  <2>2. QED
      BY <1>1, <2>1 DEF WorkerKnows, MarkJobSucceeded, WithStatus
<1>3. /\ c \in Events /\ t \in Seq(Events)
      /\ Event("ledger_posted", 0) \in Events /\ Event("succeeded", 0) \in Events
    BY DEF AInv, IInv, TypeOK, WorkerStates, Event, Events, EventActions
<1>4. unsaved[w] = [k \in Maturities |-> IF k = m THEN <<c>> ELSE <<>>]
    BY <1>1 DEF AInv, UnsavedInv, WorkerTells, WorkerEvents
<1> DEFINE u == <<c, Event("ledger_posted", 0), Event("succeeded", 0)>>
           f == [k \in Maturities |-> IF k = m THEN u ELSE <<>>]
<1>5. f \in [Maturities -> Seq(Events)]
  <2>1. u \in Seq(Events)
      BY <1>3
  <2>2. QED
      BY <2>1, EmptySeq
<1>6. unsaved' = [unsaved EXCEPT ![w] = f] /\ audit' = audit
  <2>1. <<c>> \o t = u
      BY <1>3, ConcatEvents
  <2>2. [k \in Maturities |-> IF k \in {m} THEN unsaved[w][k] \o t
                                           ELSE unsaved[w][k]] = f
      BY <1>4, <2>1
  <2>3. QED
      BY <2>2 DEF PublishSucceeded, Publish
<1>7. WorkerEvents(worker'[w]) = u
    BY <1>1, <1>2 DEF WorkerEvents
<1>8. WorkerTells(w)' <=> unsaved'[w] = f
    BY <1>1, <1>7 DEF WorkerTells
<1> HIDE DEF f
<1>9. /\ unsaved' \in UnsavedType /\ unsaved'[w] = f
      /\ \A q \in Processes : q # w => unsaved'[q] = unsaved[q]
    BY <1>5, <1>6, Published DEF AInv, Processes
<1>10. UnsavedInv'
    BY <1>1, <1>8, <1>9, WorkerSteps DEF AInv
<1>11. QED
    BY <1>1, <1>6, <1>9, <1>10, NothingCommitted

(* handleFailure publishes, after the claim, the branch it took and the    *)
(* retry_count it stored.                                                  *)
LEMMA HandleFailureAInv ==
    ASSUME AInv, IInv', NEW w \in Workers, HandleFailure(w), PublishFailure(w)
    PROVE  AInv'
<1> DEFINE c == Event("claimed", worker[w].attempt)
           e == FailureEvent(worker[w].row, worker[w].result)
           m == worker[w].job
<1>0. worker[w] \in WorkerStates /\ worker[w].row \in Rows
    BY DEF AInv, IInv, TypeOK, WorkerStates
<1>1. /\ UNCHANGED <<sched, admin, job, attempts>>
      /\ \A v \in Workers : v # w => worker'[v] = worker[v]
      /\ worker'[w].job = m /\ worker'[w].pc = "ready"
      /\ worker'[w].attempt = worker[w].attempt /\ worker[w].pc = "executed"
      /\ worker'[w].row = IF GiveUp(worker[w].row, worker[w].result)
                          THEN MarkJobDeadLetter(worker[w].row)
                          ELSE MarkJobFailedRetryable(worker[w].row)
    BY DEF AInv, IInv, TypeOK, WorkerStates, HandleFailure, tables
<1>2. e \in Events /\ c \in Events /\ <<e>> \in Seq(Events)
    BY <1>0 DEF WorkerStates, Rows, FailureEvent, Event, Events, EventActions
<1>3. unsaved[w] = [k \in Maturities |-> IF k = m THEN <<c>> ELSE <<>>]
    BY <1>1 DEF AInv, UnsavedInv, WorkerTells, WorkerEvents
<1> DEFINE f == [k \in Maturities |-> IF k = m THEN <<c, e>> ELSE <<>>]
<1>4. f \in [Maturities -> Seq(Events)]
  <2>1. <<c, e>> \in Seq(Events)
      BY <1>2
  <2>2. QED
      BY <2>1, EmptySeq
<1>5. unsaved' = [unsaved EXCEPT ![w] = f] /\ audit' = audit
  <2>1. <<c>> \o <<e>> = <<c, e>>
      BY <1>2, ConcatEvents
  <2>2. [k \in Maturities |-> IF k \in {m} THEN unsaved[w][k] \o <<e>>
                                           ELSE unsaved[w][k]] = f
      BY <1>3, <2>1
  <2>3. QED
      BY <2>2 DEF PublishFailure, Publish
<1>6. WorkerEvents(worker'[w]) = <<c, e>>
    BY <1>1 DEF WorkerEvents, FailureEvent, MarkJobDeadLetter,
                MarkJobFailedRetryable, WithStatus
<1>7. WorkerTells(w)' <=> unsaved'[w] = f
    BY <1>1, <1>6 DEF WorkerTells
<1> HIDE DEF f
<1>8. /\ unsaved' \in UnsavedType /\ unsaved'[w] = f
      /\ \A q \in Processes : q # w => unsaved'[q] = unsaved[q]
    BY <1>4, <1>5, Published DEF AInv, Processes
<1>9. UnsavedInv'
    BY <1>1, <1>7, <1>8, WorkerSteps DEF AInv
<1>10. QED
    BY <1>1, <1>5, <1>8, <1>9, NothingCommitted

(* WorkerCommit saves, with the row and the attempt, the events of exactly *)
(* that row and that attempt.                                              *)
LEMMA WorkerCommitAInv ==
    ASSUME AInv, IInv', NEW w \in Workers, WorkerCommit(w), SaveEvents(w)
    PROVE  AInv'
<1>1. PICK m \in Maturities : m = worker[w].job
    BY DEF AInv, IInv, WorkersInv, WorkerKnows, WorkerCommit
<1>2. PICK tx \in WorkerStates : tx = worker[w]
    BY DEF AInv, IInv, TypeOK
<1>3. /\ UNCHANGED <<sched, admin>> /\ worker'[w] = IdleWorker
      /\ \A v \in Workers : v # w => worker'[v] = worker[v]
      /\ tx.pc = "ready"
      /\ job'[m] = tx.row /\ attempts'[m] = Append(attempts[m], tx.result)
      /\ \A k \in Maturities : k # m => /\ job'[k] = job[k]
                                        /\ attempts'[k] = attempts[k]
      /\ attempts[m] \in Seq(Outcomes)
    BY <1>1, <1>2 DEF AInv, IInv, TypeOK, WorkerCommit
<1>4. /\ audit' \in [Maturities -> Seq(Events)] /\ unsaved' \in UnsavedType
      /\ \A k \in Maturities :
            /\ Extended(audit'[k], audit[k], unsaved[w][k])
            /\ unsaved[w][k] = <<>> => audit'[k] = audit[k]
      /\ \A q \in Processes : q # w => unsaved'[q] = unsaved[q]
      /\ unsaved'[w] = NoEvents
    BY Saved DEF AInv, Processes
<1>5. UnsavedInv'
    BY <1>3, <1>4, IdleTells, WorkerSteps DEF AInv
<1>6. /\ unsaved[w][m] = WorkerEvents(tx)
      /\ \A k \in Maturities : k # m => unsaved[w][k] = <<>>
    BY <1>1, <1>2 DEF AInv, UnsavedInv, WorkerTells
<1>7. /\ WorkerKnows(w)
      /\ job[m].status \in {"pending", "failed"}
      /\ tx.attempt = Len(attempts[m]) + 1
      /\ tx.result \in Outcomes
      /\ tx.result = "ok" => tx.row = MarkJobSucceeded(job[m])
      /\ tx.result # "ok" => tx.row = FailedRow(m, tx.result)
  <2>1. WorkerKnows(w)
      BY <1>2, <1>3 DEF AInv, IInv, WorkersInv
  <2>2. QED
      BY <1>1, <1>2, <1>3, <2>1, GatewayAnswers DEF WorkerKnows
<1>8. WellTold(audit[m], job[m], attempts[m])
    BY DEF AInv, TrailInv
<1>9. WellTold(audit'[m], job'[m], attempts'[m])
  <2>1. CASE tx.result = "ok"
    <3>1. tx.row.status = "succeeded"
        BY <1>7, <2>1 DEF MarkJobSucceeded, WithStatus
    <3>2. WorkerEvents(tx) = <<Event("claimed", Len(attempts[m]) + 1),
                               Event("ledger_posted", 0), Event("succeeded", 0)>>
        BY <1>3, <1>7, <3>1 DEF WorkerEvents
    <3>3. Extended(audit'[m], audit[m],
                   <<Event("claimed", Len(attempts[m]) + 1),
                     Event("ledger_posted", 0), Event("succeeded", 0)>>)
        BY <1>4, <1>6, <3>2
    <3>4. WellTold(audit'[m], MarkJobSucceeded(job[m]), Append(attempts[m], "ok"))
        BY <1>3, <1>7, <1>8, <3>3, SucceededWellTold
    <3>5. QED
        BY <1>3, <1>7, <2>1, <3>4
  <2>2. CASE tx.result # "ok"
    <3> DEFINE e == IF GiveUp(job[m], tx.result)
                    THEN Event("dead_letter", 0) ELSE Event("failed", tx.row.retry)
    <3>1. \/ /\ e = Event("dead_letter", 0)
             /\ tx.row = MarkJobDeadLetter(job[m])
             /\ tx.row.status = "dead_letter"
          \/ /\ e = Event("failed", tx.row.retry)
             /\ tx.row = MarkJobFailedRetryable(job[m])
             /\ tx.row.status = "failed"
             /\ tx.result # "terminal"
        BY <1>7, <2>2 DEF FailedRow, GiveUp, MarkJobDeadLetter,
                          MarkJobFailedRetryable, WithStatus
    <3>2. WorkerEvents(tx) = <<Event("claimed", Len(attempts[m]) + 1), e>>
        BY <1>3, <1>7, <3>1 DEF WorkerEvents
    <3>3. Extended(audit'[m], audit[m],
                   <<Event("claimed", Len(attempts[m]) + 1), e>>)
        BY <1>4, <1>6, <3>2
    <3> HIDE DEF e
    <3>4. WellTold(audit'[m], tx.row, Append(attempts[m], tx.result))
        BY <1>3, <1>7, <1>8, <2>2, <3>1, <3>3, FailedWellTold
    <3>5. QED
        BY <1>3, <3>4
  <2>3. QED
      BY <2>1, <2>2
<1>10. TrailInv'
  <2> SUFFICES ASSUME NEW k \in Maturities
               PROVE  WellTold(audit'[k], job'[k], attempts'[k])
      BY DEF TrailInv
  <2>1. CASE k = m
      BY <1>9, <2>1
  <2>2. CASE k # m
      BY <1>3, <1>4, <1>6, <2>2 DEF AInv, TrailInv
  <2>3. QED
      BY <2>1, <2>2
<1>11. QED
    BY <1>4, <1>5, <1>10, TrailTypes DEF AInv

-----------------------------------------------------------------------------
(* Scheduler.                                                              *)

(* ListDue publishes nothing.                                              *)
LEMMA ListDueAInv ==
    ASSUME AInv, IInv', NEW s \in Schedulers, ListDue(s), UNCHANGED trail
    PROVE  AInv'
<1>1. /\ UNCHANGED <<worker, admin, job, attempts>>
      /\ \A t \in Schedulers : t # s => sched'[t] = sched[t]
      /\ sched[s].pc = "idle" /\ sched'[s].created = {}
    BY DEF AInv, IInv, TypeOK, SchedStates, ListDue, IdleSched, tables
<1>2. audit' = audit /\ unsaved' = unsaved /\ unsaved' \in UnsavedType
    BY DEF AInv, AuditTypeOK, UnsavedType, trail
<1>3. SchedTells(s)'
    BY <1>1, <1>2 DEF AInv, UnsavedInv, SchedTells
<1>4. UnsavedInv'
    BY <1>1, <1>2, <1>3, SchedSteps DEF AInv
<1>5. QED
    BY <1>1, <1>2, <1>4, NothingCommitted

(* EnqueueDueMaturities publishes one "created" for each job it inserted.  *)
LEMMA EnqueueDueAInv ==
    ASSUME AInv, IInv', NEW s \in Schedulers, EnqueueDue(s), PublishCreated(s)
    PROVE  AInv'
<1> DEFINE e == Event("created", 0)
           created == {m \in sched[s].rows : job[m].status = "absent"}
           f == [k \in Maturities |-> IF k \in created THEN <<e>> ELSE <<>>]
<1>1. /\ UNCHANGED <<worker, admin, job, attempts>>
      /\ \A t \in Schedulers : t # s => sched'[t] = sched[t]
      /\ sched[s].pc = "listed" /\ sched'[s].created = created
      /\ sched'[s].pc = "enqueued"
  <2>1. sched \in [Schedulers -> SchedStates]
      BY DEF AInv, IInv, TypeOK
  <2>2. sched'[s].created = created /\ sched'[s].pc = "enqueued"
      BY <2>1 DEF EnqueueDue, SchedStates
  <2>3. QED
      BY <2>1, <2>2 DEF EnqueueDue, tables
<1>2. <<e>> \in Seq(Events)
    BY DEF Event, Events, EventActions
<1>3. unsaved[s] = NoEvents
    BY <1>1 DEF AInv, UnsavedInv, SchedTells, NoEvents
<1>4. f \in [Maturities -> Seq(Events)]
    BY <1>2, EmptySeq
<1>5. unsaved' = [unsaved EXCEPT ![s] = f] /\ audit' = audit
  <2>1. <<>> \o <<e>> = <<e>>
      BY <1>2, ConcatEmptySeq
  <2>2. [k \in Maturities |-> IF k \in created THEN unsaved[s][k] \o <<e>>
                                               ELSE unsaved[s][k]] = f
      BY <1>3, <2>1 DEF NoEvents
  <2>3. QED
      BY <2>2 DEF PublishCreated, Publish
<1>6. SchedTells(s)' <=> unsaved'[s] = f
    BY <1>1 DEF SchedTells
<1> HIDE DEF f
<1>7. /\ unsaved' \in UnsavedType /\ unsaved'[s] = f
      /\ \A q \in Processes : q # s => unsaved'[q] = unsaved[q]
    BY <1>4, <1>5, Published DEF AInv, Processes
<1>8. UnsavedInv'
    BY <1>1, <1>6, <1>7, SchedSteps DEF AInv
<1>9. QED
    BY <1>1, <1>5, <1>7, <1>8, NothingCommitted

(* A tick that fails or is rolled back forgets its events.                 *)
LEMMA SchedForgets ==
    ASSUME AInv, IInv', NEW s \in Schedulers,
           EnqueueFails(s) \/ SchedRollback(s), LoseEvents(s)
    PROVE  AInv'
<1>1. /\ UNCHANGED <<worker, admin, job, attempts>> /\ sched'[s] = IdleSched
      /\ \A t \in Schedulers : t # s => sched'[t] = sched[t]
    BY DEF AInv, IInv, TypeOK, EnqueueFails, SchedRollback, tables
<1>2. /\ audit' = audit /\ unsaved' \in UnsavedType
      /\ \A q \in Processes : q # s => unsaved'[q] = unsaved[q]
      /\ unsaved'[s] = NoEvents
    BY Lost DEF AInv, Processes
<1>3. UnsavedInv'
    BY <1>1, <1>2, IdleTells, SchedSteps DEF AInv
<1>4. QED
    BY <1>1, <1>2, <1>3, NothingCommitted

(* The reaper finds no lease to expire, so it publishes nothing.           *)
LEMMA ExpireStaleLeasesAInv ==
    ASSUME AInv, IInv', NEW s \in Schedulers, ExpireStaleLeases(s),
           PublishLeaseExpired(s)
    PROVE  AInv'
<1>1. /\ UNCHANGED <<worker, admin, job, attempts>>
      /\ \A t \in Schedulers : t # s => sched'[t] = sched[t]
      /\ sched[s].pc = "idle" /\ sched'[s].created = {}
    BY DEF AInv, IInv, TypeOK, SchedStates, ExpireStaleLeases, IdleSched, tables
<1>2. sched'[s].leases = {}
    BY DEF IInv, SchedsInv
<1>3. unsaved[s] = NoEvents /\ NoEvents \in [Maturities -> Seq(Events)]
    BY <1>1, EmptySeq DEF AInv, UnsavedInv, SchedTells, NoEvents
<1>4. unsaved' = [unsaved EXCEPT ![s] = NoEvents] /\ audit' = audit
  <2>1. [m \in Maturities |-> IF m \in sched'[s].leases
                              THEN unsaved[s][m] \o <<Event("lease_expired", 0)>>
                              ELSE unsaved[s][m]] = NoEvents
      BY <1>2, <1>3 DEF NoEvents
  <2>2. QED
      BY <2>1 DEF PublishLeaseExpired, Publish
<1>5. /\ unsaved' \in UnsavedType /\ unsaved'[s] = NoEvents
      /\ \A q \in Processes : q # s => unsaved'[q] = unsaved[q]
  <2>1. LoseEvents(s)
      BY <1>4 DEF LoseEvents
  <2>2. QED
      BY <2>1, Lost DEF AInv, Processes
<1>6. SchedTells(s)'
    BY <1>1, <1>5 DEF SchedTells, NoEvents
<1>7. UnsavedInv'
    BY <1>1, <1>5, <1>6, SchedSteps DEF AInv
<1>8. QED
    BY <1>1, <1>4, <1>5, <1>7, NothingCommitted

(* TickCommit saves "created" for the jobs it creates, whose trails are    *)
(* empty until then.                                                       *)
LEMMA TickCommitAInv ==
    ASSUME AInv, IInv', NEW s \in Schedulers, TickCommit(s), SaveEvents(s)
    PROVE  AInv'
<1>1. /\ UNCHANGED <<worker, admin, attempts>> /\ sched'[s] = IdleSched
      /\ \A t \in Schedulers : t # s => sched'[t] = sched[t]
      /\ \A m \in Maturities :
            job'[m] = IF m \in sched[s].created
                      THEN CreateSettlementJob(sched[s].older) ELSE job[m]
    BY DEF AInv, IInv, TypeOK, TickCommit
<1>2. /\ audit' \in [Maturities -> Seq(Events)] /\ unsaved' \in UnsavedType
      /\ \A k \in Maturities :
            /\ Extended(audit'[k], audit[k], unsaved[s][k])
            /\ unsaved[s][k] = <<>> => audit'[k] = audit[k]
      /\ \A q \in Processes : q # s => unsaved'[q] = unsaved[q]
      /\ unsaved'[s] = NoEvents
    BY Saved DEF AInv, Processes
<1>3. UnsavedInv'
    BY <1>1, <1>2, IdleTells, SchedSteps DEF AInv
<1>4. \A m \in Maturities : unsaved[s][m] =
         IF m \in sched[s].created THEN <<Event("created", 0)>> ELSE <<>>
    BY DEF AInv, UnsavedInv, SchedTells
<1>5. TrailInv'
  <2> SUFFICES ASSUME NEW m \in Maturities
               PROVE  WellTold(audit'[m], job'[m], attempts'[m])
      BY DEF TrailInv
  <2>1. WellTold(audit[m], job[m], attempts[m]) /\ attempts'[m] = attempts[m]
      BY <1>1 DEF AInv, TrailInv
  <2>2. CASE m \in sched[s].created
    <3>1. /\ job[m].status = "absent" /\ job[m].retry = 0
          /\ attempts[m] \in Seq(Outcomes)
      <4>1. job[m].status = "absent"
          BY <2>2 DEF AInv, IInv, SchedsInv
      <4>2. job[m] = AbsentRow
          BY <4>1 DEF AInv, IInv, TablesInv
      <4>3. QED
          BY <4>2 DEF AbsentRow, AInv, IInv, TypeOK
    <3>2. job'[m].status = "pending" /\ job'[m].retry = 0
        BY <1>1, <2>2 DEF CreateSettlementJob
    <3>3. Extended(audit'[m], audit[m], <<Event("created", 0)>>)
        BY <1>2, <1>4, <2>2
    <3>4. QED
        BY <2>1, <3>1, <3>2, <3>3, CreatedWellTold
  <2>3. CASE m \notin sched[s].created
      BY <1>1, <1>2, <1>4, <2>1, <2>3
  <2>4. QED
      BY <2>2, <2>3
<1>6. QED
    BY <1>2, <1>3, <1>5, TrailTypes DEF AInv

(* A reaper run commits no row and no event.                               *)
LEMMA ReapCommitAInv ==
    ASSUME AInv, IInv', NEW s \in Schedulers, ReapCommit(s), SaveEvents(s)
    PROVE  AInv'
<1>1. /\ UNCHANGED <<worker, admin, attempts>> /\ sched'[s] = IdleSched
      /\ \A t \in Schedulers : t # s => sched'[t] = sched[t]
      /\ \A m \in Maturities : job'[m] = job[m]
    BY DEF AInv, IInv, TypeOK, SchedsInv, ReapCommit
<1>2. /\ audit' \in [Maturities -> Seq(Events)] /\ unsaved' \in UnsavedType
      /\ \A k \in Maturities : unsaved[s][k] = <<>> => audit'[k] = audit[k]
      /\ \A q \in Processes : q # s => unsaved'[q] = unsaved[q]
      /\ unsaved'[s] = NoEvents
    BY Saved DEF AInv, Processes
<1>3. UnsavedInv'
    BY <1>1, <1>2, IdleTells, SchedSteps DEF AInv
<1>4. \A m \in Maturities : unsaved[s][m] = <<>>
    BY DEF AInv, UnsavedInv, SchedTells, ReapCommit
<1>5. TrailInv'
    BY <1>1, <1>2, <1>4 DEF AInv, TrailInv
<1>6. QED
    BY <1>2, <1>3, <1>5, TrailTypes DEF AInv

-----------------------------------------------------------------------------
(* Admin.                                                                  *)

(* GetByID publishes nothing.                                              *)
LEMMA AdminCheckAInv ==
    ASSUME AInv, IInv', NEW a \in Admins, NEW op \in AdminOps,
           NEW m \in Maturities, AdminCheck(a, op, m), UNCHANGED trail
    PROVE  AInv'
<1>1. /\ UNCHANGED <<worker, sched, job, attempts>>
      /\ \A b \in Admins : b # a => admin'[b] = admin[b]
      /\ admin[a].pc = "idle" /\ admin'[a].pc = "checked"
    BY DEF AInv, IInv, TypeOK, AdminCheck, tables
<1>2. audit' = audit /\ unsaved' = unsaved /\ unsaved' \in UnsavedType
    BY DEF AInv, AuditTypeOK, UnsavedType, trail
<1>3. AdminTells(a)'
    BY <1>1, <1>2 DEF AInv, UnsavedInv, AdminTells
<1>4. UnsavedInv'
    BY <1>1, <1>2, <1>3, AdminSteps DEF AInv
<1>5. QED
    BY <1>1, <1>2, <1>4, NothingCommitted

(* The UPDATE that found its row publishes what it did to it.              *)
LEMMA AdminUpdateAInv ==
    ASSUME AInv, IInv', NEW a \in Admins, AdminUpdate(a), PublishAdminAction(a)
    PROVE  AInv'
<1> DEFINE e == AdminEvent(admin[a].op)
           m == admin[a].job
           f == [k \in Maturities |-> IF k = m THEN <<e>> ELSE <<>>]
<1>1. /\ UNCHANGED <<worker, sched, job, attempts>>
      /\ \A b \in Admins : b # a => admin'[b] = admin[b]
      /\ admin[a].pc = "checked" /\ admin'[a].pc = "updated"
      /\ admin'[a].op = admin[a].op /\ admin'[a].job = m
    BY DEF AInv, IInv, TypeOK, AdminStates, AdminUpdate, tables
<1>2. <<e>> \in Seq(Events)
    BY DEF AdminEvent, Event, Events, EventActions
<1>3. unsaved[a] = NoEvents
    BY <1>1 DEF AInv, UnsavedInv, AdminTells, NoEvents
<1>4. f \in [Maturities -> Seq(Events)]
    BY <1>2, EmptySeq
<1>5. unsaved' = [unsaved EXCEPT ![a] = f] /\ audit' = audit
  <2>1. <<>> \o <<e>> = <<e>>
      BY <1>2, ConcatEmptySeq
  <2>2. [k \in Maturities |-> IF k \in {m} THEN unsaved[a][k] \o <<e>>
                                           ELSE unsaved[a][k]] = f
      BY <1>3, <2>1 DEF NoEvents
  <2>3. QED
      BY <2>2 DEF PublishAdminAction, Publish, AdminEvent
<1>6. AdminTells(a)' <=> unsaved'[a] = f
    BY <1>1 DEF AdminTells
<1> HIDE DEF f
<1>7. /\ unsaved' \in UnsavedType /\ unsaved'[a] = f
      /\ \A q \in Processes : q # a => unsaved'[q] = unsaved[q]
    BY <1>4, <1>5, Published DEF AInv, Processes
<1>8. UnsavedInv'
    BY <1>1, <1>6, <1>7, AdminSteps DEF AInv
<1>9. QED
    BY <1>1, <1>5, <1>7, <1>8, NothingCommitted

(* A conflict or a rollback leaves no event behind.                        *)
LEMMA AdminForgets ==
    ASSUME AInv, IInv', NEW a \in Admins,
           AdminConflict(a) \/ AdminRollback(a), LoseEvents(a)
    PROVE  AInv'
<1>1. /\ UNCHANGED <<worker, sched, job, attempts>> /\ admin'[a] = IdleAdmin
      /\ \A b \in Admins : b # a => admin'[b] = admin[b]
    BY DEF AInv, IInv, TypeOK, AdminConflict, AdminRollback, tables
<1>2. /\ audit' = audit /\ unsaved' \in UnsavedType
      /\ \A q \in Processes : q # a => unsaved'[q] = unsaved[q]
      /\ unsaved'[a] = NoEvents
    BY Lost DEF AInv, Processes
<1>3. UnsavedInv'
    BY <1>1, <1>2, IdleTells, AdminSteps DEF AInv
<1>4. QED
    BY <1>1, <1>2, <1>3, NothingCommitted

(* AdminCommit saves "replayed" after a dead letter or "requeued" after a  *)
(* failure: the row lock has kept the status the UPDATE found.             *)
LEMMA AdminCommitAInv ==
    ASSUME AInv, IInv', NEW a \in Admins, AdminCommit(a), SaveEvents(a)
    PROVE  AInv'
<1>1. PICK m \in Maturities, op \in AdminOps : m = admin[a].job /\ op = admin[a].op
    BY DEF AInv, IInv, AdminsInv, AdminCommit
<1>2. /\ UNCHANGED <<worker, sched, attempts>> /\ admin'[a] = IdleAdmin
      /\ \A b \in Admins : b # a => admin'[b] = admin[b]
      /\ admin[a].pc = "updated"
      /\ job'[m] = BackToPending(job[m])
      /\ \A k \in Maturities : k # m => job'[k] = job[k]
      /\ attempts[m] \in Seq(Outcomes)
    BY <1>1 DEF AInv, IInv, TypeOK, AdminCommit
<1>3. /\ audit' \in [Maturities -> Seq(Events)] /\ unsaved' \in UnsavedType
      /\ \A k \in Maturities :
            /\ Extended(audit'[k], audit[k], unsaved[a][k])
            /\ unsaved[a][k] = <<>> => audit'[k] = audit[k]
      /\ \A q \in Processes : q # a => unsaved'[q] = unsaved[q]
      /\ unsaved'[a] = NoEvents
    BY Saved DEF AInv, Processes
<1>4. UnsavedInv'
    BY <1>2, <1>3, IdleTells, AdminSteps DEF AInv
<1>5. /\ unsaved[a][m] = <<AdminEvent(op)>>
      /\ \A k \in Maturities : k # m => unsaved[a][k] = <<>>
    BY <1>1, <1>2 DEF AInv, UnsavedInv, AdminTells
<1>6. WellTold(audit'[m], job'[m], attempts'[m])
  <2>1. job[m].status = StatusFor(op)
      BY <1>1, <1>2 DEF AInv, IInv, AdminsInv
  <2>2. WellTold(audit[m], job[m], attempts[m])
      BY DEF AInv, TrailInv
  <2>3. Extended(audit'[m], audit[m], <<AdminEvent(op)>>)
      BY <1>3, <1>5
  <2>4. WellTold(audit'[m], BackToPending(job[m]), attempts[m])
      BY <1>2, <2>1, <2>2, <2>3, ReturnedWellTold
  <2>5. QED
      BY <1>2, <2>4
<1>7. TrailInv'
  <2> SUFFICES ASSUME NEW k \in Maturities
               PROVE  WellTold(audit'[k], job'[k], attempts'[k])
      BY DEF TrailInv
  <2>1. CASE k = m
      BY <1>6, <2>1
  <2>2. CASE k # m
      BY <1>2, <1>3, <1>5, <2>2 DEF AInv, TrailInv
  <2>3. QED
      BY <2>1, <2>2
<1>8. QED
    BY <1>3, <1>4, <1>7, TrailTypes DEF AInv

-----------------------------------------------------------------------------
(* Time, and steps of nobody.                                              *)

(* A trail says nothing of next_retry_at, due dates or faults.             *)
LEMMA ClockAInv ==
    ASSUME AInv, IInv',
           TimeNext \/ FaultsCease \/ UNCHANGED vars,
           UNCHANGED trail
    PROVE  AInv'
<1>1. /\ UNCHANGED <<worker, sched, admin, attempts>>
      /\ \A m \in Maturities : /\ job'[m].status = job[m].status
                                /\ job'[m].retry = job[m].retry
    BY DEF AInv, IInv, TypeOK, TimeNext, FaultsCease, vars, MaturityComesDue,
           BackoffElapses, tables
<1>2. audit' = audit /\ unsaved' = unsaved
    BY DEF trail
<1>3. UnsavedInv'
    BY <1>1, <1>2, TellsKept DEF AInv, UnsavedInv
<1>4. TrailInv'
    BY <1>1, <1>2 DEF AInv, TrailInv, WellTold, TellsTheRow
<1>5. AuditTypeOK'
    BY <1>2 DEF AInv, AuditTypeOK, IInv
<1>6. QED
    BY <1>3, <1>4, <1>5 DEF AInv

-----------------------------------------------------------------------------
(* Publishing an event never disables, delays or changes a step of the     *)
(* engine into one it would not take.                                      *)
LEMMA AuditStepIsEngineStep == [AuditNext]_auditVars => [Next]_vars
<1> SUFFICES ASSUME [AuditNext]_auditVars PROVE [Next]_vars
    OBVIOUS
<1>1. ASSUME NEW s \in Schedulers, AuditSched(s) PROVE SchedNext(s)
    BY <1>1 DEF AuditSched, SchedNext
<1>2. ASSUME NEW w \in Workers, AuditWorker(w) PROVE WorkerNext(w)
    BY <1>2 DEF AuditWorker, WorkerNext
<1>3. ASSUME NEW a \in Admins, AuditAdmin(a) PROVE AdminNext(a)
    BY <1>3 DEF AuditAdmin, AdminNext
<1>4. CASE AuditNext
    BY <1>1, <1>2, <1>3, <1>4 DEF AuditNext, Next
<1>5. CASE UNCHANGED auditVars
    BY <1>5 DEF auditVars, vars
<1>6. QED
    BY <1>4, <1>5

(* By construction a behaviour with its trail is one of the engine, so     *)
(* that what SettlementEngineProofs says of Spec carries over.             *)
LEMMA TrailOnlyObserves == AuditSpec => Spec
<1>1. AuditInit => Init
    BY DEF AuditInit
<1>2. QED
    BY <1>1, AuditStepIsEngineStep, PTL DEF AuditSpec, Spec

(* The empty database has empty trails.                                    *)
LEMMA InitAInv == AuditInit => AInv
<1> SUFFICES ASSUME AuditInit PROVE AInv
    OBVIOUS
<1>1. IInv
    BY InitIInv DEF AuditInit
<1>2. AuditTypeOK
  <2>1. NoEvents \in [Maturities -> Seq(Events)]
      BY EmptySeq DEF NoEvents
  <2>2. QED
      BY <1>1, <2>1 DEF AuditTypeOK, AuditInit, IInv
<1>3. UnsavedInv
  <2>1. \A w \in Workers : WorkerTells(w)
      BY NoJobAssumption DEF AuditInit, Init, WorkerTells, IdleWorker, NoEvents,
                             Processes
  <2>2. \A s \in Schedulers : SchedTells(s)
      BY DEF AuditInit, Init, SchedTells, IdleSched, NoEvents, Processes
  <2>3. \A a \in Admins : AdminTells(a)
      BY DEF AuditInit, Init, AdminTells, IdleAdmin, NoEvents, Processes
  <2>4. QED
      BY <2>1, <2>2, <2>3 DEF UnsavedInv
<1>4. TrailInv
  <2> SUFFICES ASSUME NEW m \in Maturities
               PROVE  WellTold(<<>>, AbsentRow, <<>>)
      BY DEF TrailInv, AuditInit, Init, NoEvents
  <2>1. EndsATransaction(<<>>)
      BY DEF EndsATransaction
  <2>2. TellsTheRow(<<>>, AbsentRow)
      BY DEF TellsTheRow, StatusTold, AbsentRow
  <2>3. TellsTheAttempts(<<>>, <<>>)
      BY DEF TellsTheAttempts
  <2>4. IsARun(<<>>)
      BY DEF IsARun
  <2>5. QED
      BY <2>1, <2>2, <2>3, <2>4 DEF WellTold
<1>5. QED
    BY <1>1, <1>2, <1>3, <1>4 DEF AInv

(* Every step preserves AInv.                                              *)
LEMMA NextAInv == AInv /\ [AuditNext]_auditVars => AInv'
<1> SUFFICES ASSUME AInv, [AuditNext]_auditVars PROVE AInv'
    OBVIOUS
<1>1. IInv'
    BY NextIInv, AuditStepIsEngineStep DEF AInv
<1>2. ASSUME NEW s \in Schedulers, AuditSched(s) PROVE AInv'
    BY <1>1, <1>2, ListDueAInv, EnqueueDueAInv, SchedForgets, TickCommitAInv,
       ExpireStaleLeasesAInv, ReapCommitAInv DEF AuditSched
<1>3. ASSUME NEW w \in Workers, AuditWorker(w) PROVE AInv'
    BY <1>1, <1>3, ClaimAInv, WorkerQuiet, WorkerForgets, MarkSettledAInv,
       HandleFailureAInv, WorkerCommitAInv DEF AuditWorker
<1>4. ASSUME NEW a \in Admins, AuditAdmin(a) PROVE AInv'
    BY <1>1, <1>4, AdminCheckAInv, AdminUpdateAInv, AdminForgets,
       AdminCommitAInv DEF AuditAdmin
<1>5. CASE (TimeNext \/ FaultsCease) /\ UNCHANGED trail
    BY <1>1, <1>5, ClockAInv
<1>6. CASE UNCHANGED auditVars
    BY <1>1, <1>6, ClockAInv DEF auditVars, vars, trail
<1>7. QED
    BY <1>2, <1>3, <1>4, <1>5, <1>6 DEF AuditNext

(* The events of an open transaction and the committed trails agree with   *)
(* the engine in every reachable state.                                    *)
THEOREM TrailInvariant == AuditSpec => []AInv
BY InitAInv, NextAInv, PTL DEF AuditSpec

(* Trails and unsaved events keep their types: every action is one some    *)
(* caller of Publish uses.                                                 *)
THEOREM AuditTypeCorrect == AuditSpec => []AuditTypeOK
<1>1. AInv => AuditTypeOK
    BY DEF AInv
<1>2. QED
    BY <1>1, TrailInvariant, PTL

(* A job's status and retry_count can be read off its trail, whatever      *)
(* committed, was rolled back or raced: PublishJobTransition shares the    *)
(* transaction of the change it reports.                                   *)
THEOREM RowIsTold == AuditSpec => []TrailTellsTheRow
<1>1. AInv => TrailTellsTheRow
    BY DEF AInv, TrailInv, WellTold, TrailTellsTheRow
<1>2. QED
    BY <1>1, TrailInvariant, PTL

(* So can its payout attempts: one "claimed" event each, in order, with    *)
(* the attempt's outcome next to it.                                       *)
THEOREM AttemptsAreTold == AuditSpec => []TrailTellsTheAttempts
<1>1. AInv => TrailTellsTheAttempts
    BY DEF AInv, TrailInv, WellTold, TrailTellsTheAttempts
<1>2. QED
    BY <1>1, TrailInvariant, PTL

(* Every trail is a run of the job's state machine.                        *)
THEOREM TrailsAreRuns == AuditSpec => []TrailIsARun
<1>1. AInv => TrailIsARun
    BY DEF AInv, TrailInv, WellTold, TrailIsARun
<1>2. QED
    BY <1>1, TrailInvariant, PTL
=============================================================================
