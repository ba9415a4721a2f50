------------------------ MODULE ImplementationProofs ------------------------
(***************************************************************************)
(* Proofs about Implementation, for any number of failed calls, of crashes *)
(* and of actions of other people: it is well typed, announces what it     *)
(* does to the tracker, the repository and GitHub, creates one pull        *)
(* request, starts the agent once for each attempt, records what the       *)
(* evidence says, writes histories that the preflight of resume accepts,   *)
(* and takes nothing from others.                                          *)
(***************************************************************************)
EXTENDS Implementation, TLAPS, SequenceTheorems

\* The steps of a command, by what they work on.
ClaimSteps == {"claim", "show", "take", "show_again", "confirm_claim", "record_claim"}
WorktreeSteps == {"worktree", "add", "adding", "confirm_worktree", "record_worktree"}
\* The steps on an attempt that is open.
OpenSteps == {"prompt", "agent", "agent_works", "accept", "seal_report", "finish_attempt",
              "write_ruling", "seal_ruling", "interrupt", "recover"}
RulingSteps == {"write_ruling", "seal_ruling", "interrupt"}
PublishSteps == {"push", "pushing", "confirm_push", "announce_branch", "pr", "create_pr",
                 "judge_pr", "confirm_pr", "announce_pr", "ready"}

\* The kinds of records that the last one may be.
Kinds == {"worker.launched", "worker.launch_reconciled", "worker.terminal",
          "run.attention_required", "lifecycle.signal_interrupted", "bead.claimed",
          "bead.claim_reconciled", "worktree.ready", "worktree.reconciled",
          "implementation.attempt", "candidate.change_committed", "candidate.published",
          "candidate.ready"}

\* What TypeOK says of the projection, and of everything else.
RunTyped(r) ==
    r \in [checkpoint : {"created", "claimed", "worktree_ready", "change_committed",
                         "candidate_ready"},
           last : Kinds,
           scope : {"none", "bead_claim", "worktree", "candidate", "worker_launch",
                    "lifecycle"},
           episode : BOOLEAN, attempts : Seq(Attempts), published : Seq({"branch", "pr"}),
           exit : BOOLEAN]

StateTyped ==
    /\ effect \in [{"claim", "worktree", "push", "pr"} -> {"none", "prepared", "confirmed"}]
    /\ evidence \in [Ids -> [dir : BOOLEAN, report : Reports \cup {"none"},
                             recovery : Rulings, sealed : BOOLEAN]]
    /\ bead \in {"open", "ours", "other"}
    /\ tree \in {"absent", "partial", "base", "dirty", "commit"}
    /\ remote \in {"absent", "candidate", "foreign"} /\ target \in {"base", "moved"}
    /\ prs \in [ours : Nat, foreign : BOOLEAN]
    /\ unit \in {"working", "ending", "gone"} /\ ran \subseteq Ids
    /\ pc \in Steps /\ todo \in Seq(Phases) /\ hand \in Rulings /\ again \in BOOLEAN
    /\ faults \in 0 .. MaxFaults /\ crashes \in 0 .. MaxCrashes

\* A command only takes the steps of the phase that the Run is in, and the phases that
\* follow are the ones it has not reached.
StageOK ==
    /\ pc \in ClaimSteps =>
          /\ run.checkpoint \in {"created", "claimed"}
          /\ todo \in {<<"worktree", "candidate">>, <<"worktree">>, <<>>}
    /\ pc \in WorktreeSteps =>
          /\ run.checkpoint \in {"claimed", "worktree_ready"} /\ run.attempts = <<>>
          /\ todo \in {<<"candidate">>, <<>>}
    /\ pc \in {"add", "adding"} => run.checkpoint = "claimed"
    /\ pc \in {"candidate", "verify"} =>
          run.checkpoint \in {"worktree_ready", "change_committed"}
    /\ pc \in OpenSteps \cup {"start_attempt", "interrupted"} =>
          run.checkpoint = "worktree_ready"
    /\ pc \in OpenSteps \cup {"candidate", "start_attempt", "interrupted"} =>
          run.scope # "worktree"
    /\ pc \in PublishSteps => run.checkpoint = "change_committed"

\* What the last record and the attention still say of how far the Run is.
ProgressOK ==
    /\ run.last \in {"bead.claimed", "bead.claim_reconciled"} => run.checkpoint = "claimed"
    /\ run.last \in {"worktree.ready", "worktree.reconciled"} =>
          run.checkpoint = "worktree_ready" /\ run.attempts = <<>>
    /\ run.scope = "bead_claim" => run.checkpoint \in {"created", "claimed"}
    /\ run.scope = "worktree" =>
          run.checkpoint \in {"claimed", "worktree_ready"} /\ run.attempts = <<>>
    /\ run.checkpoint \in {"created", "claimed"} => run.attempts = <<>>
    /\ run.checkpoint \in {"change_committed", "candidate_ready"} =>
          Current.status = "completed"

\* Whatever is there was announced, by the time a step is about to make it or claims it.
EffectsOK ==
    /\ EffectsLead /\ CreatedOnce
    /\ pc \in ClaimSteps \ {"claim"} => effect.claim # "none"
    /\ pc = "record_claim" => effect.claim = "confirmed"
    /\ pc \in WorktreeSteps \ {"worktree"} => effect.worktree # "none"
    /\ pc = "record_worktree" => effect.worktree = "confirmed"
    /\ pc \in {"confirm_worktree", "record_worktree"} \/ HasWorktree => tree # "absent"
    /\ pc \in {"pushing", "confirm_push"} => effect.push # "none"
    /\ pc = "announce_branch" => effect.push = "confirmed"
    /\ pc \in {"create_pr", "judge_pr", "confirm_pr"} => effect.pr # "none"
    /\ pc = "announce_pr" => effect.pr = "confirmed"
    /\ pc = "create_pr" => prs.ours = 0
    /\ remote = "candidate" => run.checkpoint \in {"change_committed", "candidate_ready"}

\* What AttemptsValid says of the recorded attempts, for any sequence of them.
ValidHistory(s) ==
    \A i \in DOMAIN s :
        LET prior == Last(SubSeq(s, 1, i - 1))
        IN IF s[i].status = "started" THEN s[i].id = NextId(prior)
           ELSE prior.status = "started" /\ s[i].id = prior.id

\* Attempts are numbered upwards; an open attempt has not ended, and a step on an attempt
\* finds it as it needs it.
AttemptsOK ==
    /\ AttemptsValid
    /\ \A i \in DOMAIN run.attempts : run.attempts[i].id <= Current.id
    /\ Current.status = "started" =>
          \A i \in DOMAIN run.attempts :
              run.attempts[i].status # "started" => run.attempts[i].id < Current.id
    /\ pc \in OpenSteps => Current.status = "started"
    /\ pc = "start_attempt" => NextId(Current) # 0
    /\ pc = "verify" => Current.status = "completed"
    /\ pc = "interrupted" =>
          Current.status = "interrupted" /\ (again => Current.retryable /\ Current.id = 1)

\* The agent ran in no attempt that is still to be started.
SpentOK ==
    /\ \A n \in ran : n <= Current.id
    /\ pc \in {"prompt", "agent"} => Current.id \notin ran
    /\ Current.id = 2 => evidence[1].sealed /\ evidence[1].recovery.retryable

\* The evidence of an open attempt is as far as the command is, and does not contradict
\* itself: where a ruling stands against a completed report there is no commit.
EvidenceOK ==
    /\ RecordTellsEvidence
    /\ \A n \in Ids : n > Current.id => evidence[n] = NoEvidence
    /\ \A n \in Ids : evidence[n].recovery.retryable => n = 1
    /\ Current.status = "started" =>
          LET e == evidence[Current.id]
          IN /\ e.recovery # NoRuling \/ pc = "write_ruling" =>
                    e.report # "completed" \/ tree # "commit"
             /\ pc \in {"prompt", "agent", "agent_works"} =>
                    e.report = "none" /\ e.recovery = NoRuling /\ ~e.sealed
             /\ pc \in {"seal_report", "finish_attempt"} =>
                    e.report = "completed" /\ e.recovery = NoRuling
             /\ pc = "finish_attempt" => e.sealed
             /\ pc \in RulingSteps =>
                    /\ hand # NoRuling /\ (hand.retryable => Current.id = 1)
                    /\ again => hand.retryable
             /\ pc \in {"seal_ruling", "interrupt"} => e.recovery = hand
             /\ pc = "interrupt" => e.sealed

\* Nothing is published twice, or before there is a commit.
PublishedOK == PublicationsValid

IInv == /\ RunTyped(run) /\ StateTyped /\ StageOK /\ ProgressOK /\ EffectsOK /\ AttemptsOK
        /\ SpentOK /\ EvidenceOK /\ PublishedOK
-----------------------------------------------------------------------------

LEMMA WellTyped == RunTyped(run) /\ StateTyped => TypeOK
BY DEF RunTyped, StateTyped, TypeOK

\* The latest of a sequence of attempts.
LEMMA LastAttempt ==
  ASSUME NEW s \in Seq(Attempts)
  PROVE  /\ s = <<>> => Last(s) = NoAttempt
         /\ s # <<>> => Len(s) \in DOMAIN s /\ Last(s) = s[Len(s)] /\ Last(s) \in Attempts
         /\ Last(s).id \in 0 .. 2
         /\ Last(s).id = 0 <=> s = <<>>
         /\ Last(s).status \in {"none", "started", "completed", "interrupted"}
         /\ Last(s).status = "none" <=> s = <<>>
         /\ Last(s).retryable \in BOOLEAN
<1>1. CASE s = <<>>
  BY <1>1 DEF Last, NoAttempt, Attempt
<1>2. CASE s # <<>>
  <2>1. Len(s) \in DOMAIN s /\ Last(s) = s[Len(s)]
    BY <1>2, EmptySeq, LenProperties DEF Last
  <2>2. Last(s) \in Attempts
    BY <2>1, ElementOfSeq
  <2>. QED BY <1>2, <2>1, <2>2 DEF Attempts, Ids
<1>. QED BY <1>1, <1>2

LEMMA AttemptAt ==
  ASSUME NEW s \in Seq(Attempts), NEW i \in DOMAIN s
  PROVE  s[i] \in Attempts /\ s[i].id \in Ids
<1>1. i \in 1 .. Len(s)
  BY LenProperties
<1>2. s[i] \in Attempts
  BY <1>1, ElementOfSeq
<1>. QED BY <1>2 DEF Attempts

LEMMA AppendAttempt ==
  ASSUME NEW s \in Seq(Attempts), NEW a \in Attempts
  PROVE  /\ Append(s, a) \in Seq(Attempts) /\ Append(s, a) # <<>>
         /\ DOMAIN Append(s, a) = DOMAIN s \cup {Len(s) + 1}
         /\ \A i \in DOMAIN s : Append(s, a)[i] = s[i]
         /\ Append(s, a)[Len(s) + 1] = a
         /\ Last(Append(s, a)) = a
<1>1. /\ Append(s, a) \in Seq(Attempts) /\ Append(s, a) # <<>>
      /\ Len(Append(s, a)) = Len(s) + 1
      /\ \A i \in 1 .. Len(s) : Append(s, a)[i] = s[i]
      /\ Append(s, a)[Len(s) + 1] = a
  BY AppendProperties
<1>2. Len(s) \in Nat /\ DOMAIN s = 1 .. Len(s) /\ DOMAIN Append(s, a) = 1 .. Len(s) + 1
  BY <1>1, LenProperties
<1>3. Last(Append(s, a)) = a
  BY <1>1 DEF Last
<1>. QED BY <1>1, <1>2, <1>3

\* A history stays valid when a valid record is appended.
LEMMA HistoryGrows ==
  ASSUME NEW s \in Seq(Attempts), NEW a \in Attempts, ValidHistory(s),
         IF a.status = "started" THEN a.id = NextId(Last(s))
         ELSE Last(s).status = "started" /\ a.id = Last(s).id
  PROVE  ValidHistory(Append(s, a))
<1> DEFINE t == Append(s, a)
<1>1. Len(s) \in Nat /\ DOMAIN s = 1 .. Len(s)
  BY LenProperties
<1>2. /\ t \in Seq(Attempts) /\ Len(t) = Len(s) + 1
      /\ \A i \in 1 .. Len(s) : t[i] = s[i]
      /\ t[Len(s) + 1] = a
  BY AppendProperties
<1>3. ASSUME NEW n \in 0 .. Len(s) PROVE SubSeq(t, 1, n) = SubSeq(s, 1, n)
  <2>1. /\ SubSeq(t, 1, n) \in Seq(Attempts) /\ SubSeq(s, 1, n) \in Seq(Attempts)
        /\ Len(SubSeq(t, 1, n)) = n /\ Len(SubSeq(s, 1, n)) = n
        /\ \A i \in 1 .. n : SubSeq(t, 1, n)[i] = t[i] /\ SubSeq(s, 1, n)[i] = s[i]
    <3>. HIDE DEF t
    <3>. QED BY <1>1, <1>2, SubSeqProperties
  <2>2. \A i \in 1 .. n : SubSeq(t, 1, n)[i] = SubSeq(s, 1, n)[i]
    BY <1>1, <1>2, <2>1
  <2>. HIDE DEF t
  <2>. QED BY <2>1, <2>2, SeqEqual
<1>4. SubSeq(s, 1, Len(s)) = s
  BY SubSeqFull
<1>5. ASSUME NEW i \in DOMAIN t
      PROVE  IF t[i].status = "started" THEN t[i].id = NextId(Last(SubSeq(t, 1, i - 1)))
             ELSE /\ Last(SubSeq(t, 1, i - 1)).status = "started"
                  /\ t[i].id = Last(SubSeq(t, 1, i - 1)).id
  <2>1. i \in 1 .. Len(s) + 1
    BY <1>2, LenProperties
  <2>2. CASE i \in 1 .. Len(s)
    <3>1. SubSeq(t, 1, i - 1) = SubSeq(s, 1, i - 1) /\ t[i] = s[i]
      BY <1>1, <1>2, <1>3, <2>2
    <3>. HIDE DEF t
    <3>. QED BY <1>1, <2>2, <3>1 DEF ValidHistory
  <2>3. CASE i = Len(s) + 1
    <3>1. SubSeq(t, 1, i - 1) = s /\ t[i] = a
      BY <1>1, <1>2, <1>3, <1>4, <2>3
    <3>. HIDE DEF t
    <3>. QED BY <3>1
  <2>. QED BY <1>1, <2>1, <2>2, <2>3
<1>. HIDE DEF t
<1>6. ValidHistory(t)
  BY <1>5 DEF ValidHistory
<1>. QED BY <1>6 DEF t

\* The phases that follow are a suffix of the order in which the worker goes.
LEMMA Following ==
  ASSUME Advance
  PROVE  /\ todo = <<"worktree", "candidate">> =>
               Onward = "worktree" /\ todo' = <<"candidate">>
         /\ todo = <<"worktree">> => Onward = "worktree" /\ todo' = <<>>
         /\ todo = <<"candidate">> => Onward = "candidate" /\ todo' = <<>>
         /\ todo = <<>> => Onward = "end" /\ todo' = <<>>
<1>1. /\ Head(<<"worktree", "candidate">>) = "worktree"
      /\ Tail(<<"worktree", "candidate">>) = <<"candidate">>
  OBVIOUS
<1>2. /\ Head(<<"worktree">>) = "worktree" /\ Tail(<<"worktree">>) = <<>>
      /\ Head(<<"candidate">>) = "candidate" /\ Tail(<<"candidate">>) = <<>>
  OBVIOUS
<1>3. /\ <<"worktree", "candidate">> # <<>> /\ <<"worktree">> # <<>> /\ <<"candidate">> # <<>>
  OBVIOUS
<1>. QED BY <1>1, <1>2, <1>3 DEF Advance, Onward

\* What a resume goes on with is what one of the rows says, when that row applies.
LEMMA Rows ==
  /\ Branch[2] \in {"alert_signal", "claim", "worktree", "candidate", "idle", "note_unit",
                    "alert_worker"}
  /\ Branch[3] \in {<<>>, <<"worktree">>, <<"candidate">>}
  /\ Branch[2] = "claim" =>
        /\ \/ run.last \in {"bead.claimed", "bead.claim_reconciled"}
           \/ run.scope = "bead_claim" \/ ClaimReady
        /\ Branch[3] \in {<<>>, <<"worktree">>}
  /\ Branch[2] = "worktree" =>
        /\ run.last \in {"worktree.ready", "worktree.reconciled"} \/ run.scope = "worktree"
        /\ Branch[3] \in {<<>>, <<"candidate">>}
  /\ Branch[2] = "candidate" =>
        (AttemptReady \/ CandidateReady) /\ run.scope # "worktree"
<1> DEFINE Row(i) == Branches[i]
           First(i) == Branches[i][1] /\ \A j \in 1 .. i - 1 : ~Branches[j][1]
<1>1. DOMAIN Branches = 1 .. 12
  BY DEF Branches
<1>2. \E i \in 1 .. 12 : First(i)
  <2>1. Branches[12][1]
    BY DEF Branches
  <2> DEFINE S == {i \in 1 .. 12 : Branches[i][1]}
  <2>2. 12 \in S /\ S \subseteq Nat
    BY <2>1
  <2>3. PICK n \in S : \A m \in S : n <= m
    <3>. HIDE DEF S
    <3>. QED BY <2>2
  <2>. QED BY <2>3
<1>3. PICK i \in 1 .. 12 : First(i) /\ Branch = Branches[i]
  BY <1>1, <1>2 DEF Branch
<1>4. CASE i = 1
  BY <1>3, <1>4 DEF Branches
<1>5. CASE i = 2
  <2>1. Branches[2] = <<run.last \in {"bead.claimed", "bead.claim_reconciled"}, "claim",
                        <<"worktree">>>>
    BY DEF Branches
  <2>2. Branches[2][1] = (run.last \in {"bead.claimed", "bead.claim_reconciled"})
    BY <2>1
  <2>3. Branches[2][2] = "claim" /\ Branches[2][3] = <<"worktree">>
    BY <2>1
  <2>. QED BY <1>3, <1>5, <2>2, <2>3
<1>6. CASE i = 3
  BY <1>3, <1>6 DEF Branches
<1>7. CASE i = 4
  BY <1>3, <1>7 DEF Branches
<1>8. CASE i = 5
  BY <1>3, <1>8 DEF Branches
<1>9. CASE i = 6
  <2>1. ~Branches[5][1]
    BY <1>3, <1>9
  <2>2. run.scope # "worktree"
    BY <2>1 DEF Branches
  <2>. QED BY <1>3, <1>9, <2>2 DEF Branches
<1>10. CASE i = 7
  <2>1. ~Branches[5][1]
    BY <1>3, <1>10
  <2>2. run.scope # "worktree"
    BY <2>1 DEF Branches
  <2>. QED BY <1>3, <1>10, <2>2 DEF Branches
<1>11. CASE i = 8
  BY <1>3, <1>11 DEF Branches
<1>12. CASE i = 9
  BY <1>3, <1>12 DEF Branches
<1>13. CASE i = 10
  BY <1>3, <1>13 DEF Branches
<1>14. CASE i = 11
  <2>1. ~Branches[5][1]
    BY <1>3, <1>14
  <2>2. run.scope # "worktree"
    BY <2>1 DEF Branches
  <2>. QED BY <1>3, <1>14, <2>2 DEF Branches
<1>15. CASE i = 12
  BY <1>3, <1>15 DEF Branches
<1>. QED BY <1>4, <1>5, <1>6, <1>7, <1>8, <1>9, <1>10, <1>11, <1>12, <1>13, <1>14, <1>15

\* A step that works on no attempt leaves what is said about them true.
LEMMA AttemptsKept ==
  ASSUME IInv, run'.attempts = run.attempts, UNCHANGED <<evidence, ran>>,
         tree' = "commit" => tree = "commit",
         pc' \notin OpenSteps \cup {"start_attempt", "interrupted", "verify"}
  PROVE  AttemptsOK' /\ SpentOK' /\ EvidenceOK' /\ Current' = Current
<1>1. Current' = Current
  BY DEF Current
<1>2. AttemptsOK'
  BY <1>1 DEF IInv, AttemptsOK, AttemptsValid
<1>3. SpentOK'
  BY <1>1 DEF IInv, SpentOK, OpenSteps
<1>4. RecordTellsEvidence'
  BY DEF IInv, EvidenceOK, RecordTellsEvidence
<1>5. EvidenceOK'
  BY <1>1, <1>4 DEF IInv, EvidenceOK, OpenSteps, RulingSteps
<1>. QED BY <1>1, <1>2, <1>3, <1>5

LEMMA PublicationsKept ==
  ASSUME IInv, run'.published = run.published,
         \/ run'.checkpoint = run.checkpoint
         \/ run.checkpoint \notin {"change_committed", "candidate_ready"}
         \/ run'.checkpoint \in {"change_committed", "candidate_ready"}
  PROVE  PublishedOK'
BY DEF IInv, PublishedOK, PublicationsValid

\* A command that stops records why, and nothing else.
LEMMA Stops ==
  ASSUME RunTyped(run),
         NEW scope \in {"none", "bead_claim", "worktree", "candidate", "worker_launch",
                        "lifecycle"},
         Stop(scope)
  PROVE  /\ RunTyped(run') /\ pc' = "end"
         /\ run'.checkpoint = run.checkpoint /\ run'.attempts = run.attempts
         /\ run'.published = run.published /\ run'.exit = run.exit
         /\ run'.scope = scope /\ run'.last = "run.attention_required"
<1>1. RunTyped(run')
  BY DEF RunTyped, Kinds, Stop, Record
<1>. QED BY <1>1 DEF RunTyped, Stop, Record

LEMMA Queues ==
  /\ <<"worktree", "candidate">> \in Seq(Phases) /\ <<"worktree">> \in Seq(Phases)
  /\ <<"candidate">> \in Seq(Phases) /\ <<>> \in Seq(Phases)
BY DEF Phases

LEMMA NoRulingTyped == NoRuling \in Rulings /\ ~NoRuling.retryable
BY DEF Ruling, NoRuling, Rulings

LEMMA RulingsTyped ==
  ASSUME NEW why \in {"no report", "rejected", "no evidence", "no end", "budget", "partial",
                      "dirty", "commit"},
         NEW b \in BOOLEAN
  PROVE  /\ Ruling(why, b) \in Rulings /\ Ruling(why, b) # NoRuling
         /\ Ruling(why, b).retryable = b
BY DEF Ruling, NoRuling, Rulings

\* Another attempt follows nothing, or a first one that may be repeated.
LEMMA NextIds ==
  ASSUME RunTyped(run)
  PROVE  /\ Current.id \in 0 .. 2 /\ Current.retryable \in BOOLEAN
         /\ Current.status \in {"none", "started", "completed", "interrupted"}
         /\ Current.status # "none" => Current.id \in Ids
         /\ NextId(Current) # 0 =>
               /\ NextId(Current) = Current.id + 1 /\ NextId(Current) \in Ids
               /\ \/ Current.status = "none" /\ Current.id = 0
                  \/ /\ Current.status = "interrupted" /\ Current.retryable
                     /\ Current.id = 1
<1>1. run.attempts \in Seq(Attempts)
  BY DEF RunTyped
<1>2. /\ Current.id \in 0 .. 2 /\ Current.retryable \in BOOLEAN
      /\ Current.status \in {"none", "started", "completed", "interrupted"}
      /\ Current.status = "none" <=> Current.id = 0
  BY <1>1, LastAttempt DEF Current
<1>3. Current = NoAttempt => Current.status = "none"
  BY DEF NoAttempt, Attempt
<1>. QED BY <1>2, <1>3 DEF NextId, Ids

\* What the record of an attempt makes of the projection.
LEMMA Recorded ==
  ASSUME RunTyped(run), NEW n \in Ids, NEW status \in {"started", "completed", "interrupted"},
         NEW b \in BOOLEAN, NEW next, RecordAttempt(n, status, b, next)
  PROVE  /\ RunTyped(run') /\ pc' = next
         /\ run'.checkpoint = run.checkpoint /\ run'.published = run.published
         /\ run'.scope = run.scope /\ run'.last = "implementation.attempt"
         /\ run'.attempts = Append(run.attempts, Attempt(n, status, b))
         /\ run'.attempts # <<>>
         /\ Attempt(n, status, b) \in Attempts
         /\ Current' = Attempt(n, status, b)
         /\ Current'.id = n /\ Current'.status = status /\ Current'.retryable = b
         /\ \A i \in DOMAIN run'.attempts :
               \/ i \in DOMAIN run.attempts /\ run'.attempts[i] = run.attempts[i]
               \/ run'.attempts[i] = Current'
<1> DEFINE a == Attempt(n, status, b)
<1>1. a \in Attempts /\ a.id = n /\ a.status = status /\ a.retryable = b
  BY DEF Attempt, Attempts
<1>2. run.attempts \in Seq(Attempts)
  BY DEF RunTyped
<1>. HIDE DEF a
<1>3. /\ Append(run.attempts, a) \in Seq(Attempts) /\ Append(run.attempts, a) # <<>>
      /\ DOMAIN Append(run.attempts, a) = DOMAIN run.attempts \cup {Len(run.attempts) + 1}
      /\ \A i \in DOMAIN run.attempts : Append(run.attempts, a)[i] = run.attempts[i]
      /\ Append(run.attempts, a)[Len(run.attempts) + 1] = a
      /\ Last(Append(run.attempts, a)) = a
  BY <1>1, <1>2, AppendAttempt
<1>4. run' = [run EXCEPT !.attempts = Append(run.attempts, a), !.last = "implementation.attempt"]
      /\ pc' = next
  BY DEF RecordAttempt, Record, a
<1>5. /\ RunTyped(run') /\ run'.attempts = Append(run.attempts, a)
      /\ run'.checkpoint = run.checkpoint /\ run'.published = run.published
      /\ run'.scope = run.scope /\ run'.last = "implementation.attempt"
  BY <1>3, <1>4 DEF RunTyped, Kinds
<1>6. Current' = a
  BY <1>3, <1>5 DEF Current
<1>. QED BY <1>1, <1>3, <1>4, <1>5, <1>6 DEF a

\* What a publication makes of it: one more is published, and it is once.
LEMMA Publishes ==
  ASSUME IInv, NEW what \in {"branch", "pr"}, ~IsPublished(what), Publish(what),
         run.checkpoint = "change_committed"
  PROVE  /\ RunTyped(run') /\ run'.checkpoint = run.checkpoint
         /\ run'.attempts = run.attempts
         /\ run'.scope = "none" /\ run'.last = "candidate.published"
         /\ \A w : IsPublished(w)' => IsPublished(w) \/ w = what
         /\ PublishedOK'
         /\ pc' = IF what = "branch" THEN "pr" ELSE "ready"
<1>1. run.published \in Seq({"branch", "pr"}) /\ RunTyped(run)
  BY DEF IInv, RunTyped
<1>2. /\ Append(run.published, what) \in Seq({"branch", "pr"})
      /\ Len(Append(run.published, what)) = Len(run.published) + 1
      /\ \A i \in 1 .. Len(run.published) : Append(run.published, what)[i] = run.published[i]
      /\ Append(run.published, what)[Len(run.published) + 1] = what
  BY <1>1, AppendProperties
<1>3. /\ Len(run.published) \in Nat /\ DOMAIN run.published = 1 .. Len(run.published)
      /\ DOMAIN Append(run.published, what) = 1 .. Len(run.published) + 1
  BY <1>1, <1>2, LenProperties
<1>4. /\ RunTyped(run') /\ run'.published = Append(run.published, what)
      /\ run'.checkpoint = run.checkpoint /\ run'.attempts = run.attempts
      /\ run'.scope = "none" /\ run'.last = "candidate.published"
  BY <1>1, <1>2 DEF RunTyped, Kinds, Publish, Record
<1>5. \A w : IsPublished(w)' => IsPublished(w) \/ w = what
  BY <1>2, <1>3, <1>4 DEF IsPublished
<1>6. \A i \in DOMAIN run.published : run.published[i] # what
  BY DEF IsPublished
<1>7. PublishedOK'
  BY <1>2, <1>3, <1>4, <1>6 DEF IInv, PublishedOK, PublicationsValid
<1>. QED BY <1>4, <1>5, <1>7 DEF Publish, Record

\* While others act, or the unit dies, the command stands where it stands.
LEMMA Undisturbed ==
  ASSUME IInv, UNCHANGED <<run, evidence, ran, pc, hand, again>>,
         tree' = "commit" => tree = "commit"
  PROVE  AttemptsOK' /\ SpentOK' /\ EvidenceOK'
<1>1. Current' = Current
  BY DEF Current
<1>2. AttemptsOK'
  BY <1>1 DEF IInv, AttemptsOK, AttemptsValid
<1>3. SpentOK'
  BY <1>1 DEF IInv, SpentOK
<1>4. RecordTellsEvidence'
  BY DEF IInv, EvidenceOK, RecordTellsEvidence
<1>5. EvidenceOK'
  BY <1>1, <1>4 DEF IInv, EvidenceOK
<1>. QED BY <1>2, <1>3, <1>5

\* What the steps that write evidence make of it.
EvidenceRecords == [dir : BOOLEAN, report : Reports \cup {"none"}, recovery : Rulings,
                    sealed : BOOLEAN]

\* One attempt's evidence is written, and what is in it then.
Writes(f, e, n, report, recovery, sealed) ==
    /\ f \in [Ids -> EvidenceRecords]
    /\ \A m \in Ids : m # n => f[m] = e[m]
    /\ f[n].report = report /\ f[n].recovery = recovery /\ (f[n].sealed <=> sealed)

LEMMA WritesDir ==
  ASSUME NEW e \in [Ids -> EvidenceRecords], NEW n \in Ids
  PROVE  Writes([e EXCEPT ![n].dir = TRUE], e, n, e[n].report, e[n].recovery, e[n].sealed)
BY DEF EvidenceRecords, Writes

LEMMA WritesReport ==
  ASSUME NEW e \in [Ids -> EvidenceRecords], NEW n \in Ids, NEW report \in Reports
  PROVE  Writes([e EXCEPT ![n].report = report], e, n, report, e[n].recovery, e[n].sealed)
BY DEF EvidenceRecords, Writes

LEMMA WritesSeal ==
  ASSUME NEW e \in [Ids -> EvidenceRecords], NEW n \in Ids
  PROVE  Writes([e EXCEPT ![n].sealed = TRUE], e, n, e[n].report, e[n].recovery, TRUE)
BY DEF EvidenceRecords, Writes

LEMMA WritesRuling ==
  ASSUME NEW e \in [Ids -> EvidenceRecords], NEW n \in Ids, NEW ruling \in Rulings
  PROVE  Writes([e EXCEPT ![n].dir = TRUE, ![n].recovery = ruling], e, n, e[n].report, ruling,
                e[n].sealed)
BY DEF EvidenceRecords, Writes

LEMMA ClaimRecorded ==
  ASSUME IInv, RecordClaim
  PROVE  /\ RunTyped(run') /\ run'.checkpoint = "claimed" /\ run'.scope # "bead_claim"
         /\ run'.scope \in {"none", run.scope}
         /\ run'.attempts = run.attempts /\ run'.published = run.published
         /\ run'.last \in {"bead.claimed", "bead.claim_reconciled", run.last}
         /\ \/ pc' = "worktree" /\ todo' \in {<<"candidate">>, <<>>}
            \/ pc' = "end" /\ todo' = <<>>
<1>1. /\ RunTyped(run') /\ run'.checkpoint = "claimed" /\ run'.scope # "bead_claim"
      /\ run'.scope \in {"none", run.scope}
      /\ run'.attempts = run.attempts /\ run'.published = run.published
      /\ run'.last \in {"bead.claimed", "bead.claim_reconciled", run.last}
  BY DEF IInv, RunTyped, Kinds, RecordClaim, StageOK, ClaimSteps, Goto, Record
<1>2. pc' = Onward /\ Advance
  BY DEF RecordClaim, Goto, Record
<1>3. todo \in {<<"worktree", "candidate">>, <<"worktree">>, <<>>}
  BY DEF IInv, StageOK, ClaimSteps, RecordClaim
<1>4. \/ pc' = "worktree" /\ todo' \in {<<"candidate">>, <<>>}
      \/ pc' = "end" /\ todo' = <<>>
  BY <1>2, <1>3, Following
<1>. QED BY <1>1, <1>4

LEMMA WorktreeRecorded ==
  ASSUME IInv, RecordWorktree
  PROVE  /\ RunTyped(run') /\ run'.checkpoint = "worktree_ready"
         /\ run'.scope \in {"none", run.scope} \ {"worktree"}
         /\ run'.attempts = <<>> /\ run.attempts = <<>> /\ run'.published = run.published
         /\ run'.last \in {"worktree.ready", "worktree.reconciled", run.last}
         /\ pc' \in {"candidate", "end"} /\ todo' = <<>>
         /\ run'.scope # "bead_claim" \/ run'.checkpoint = run.checkpoint
         /\ run'.last # run.last \/ run'.checkpoint = run.checkpoint
<1>1. /\ RunTyped(run') /\ run'.checkpoint = "worktree_ready"
      /\ run'.scope \in {"none", run.scope} \ {"worktree"}
      /\ run'.attempts = <<>> /\ run.attempts = <<>> /\ run'.published = run.published
      /\ run'.last \in {"worktree.ready", "worktree.reconciled", run.last}
      /\ run'.scope # "bead_claim" \/ run'.checkpoint = run.checkpoint
      /\ run'.last # run.last \/ run'.checkpoint = run.checkpoint
  BY DEF IInv, RunTyped, Kinds, RecordWorktree, StageOK, ProgressOK, WorktreeSteps, Goto, Record,
         HasWorktree
<1>2. pc' = Onward /\ Advance
  BY DEF RecordWorktree, Goto, Record
<1>3. todo \in {<<"candidate">>, <<>>}
  BY DEF IInv, StageOK, WorktreeSteps, RecordWorktree
<1>4. pc' \in {"candidate", "end"} /\ todo' = <<>>
  BY <1>2, <1>3, Following
<1>. QED BY <1>1, <1>4

\* The record of an attempt, where one may be made, keeps what does not speak of evidence.
LEMMA RecordKeeps ==
  ASSUME IInv, NEW n \in Ids, NEW status \in {"started", "completed", "interrupted"},
         NEW b \in BOOLEAN, NEW next \in {"prompt", "verify", "interrupted"},
         RecordAttempt(n, status, b, next), run.checkpoint = "worktree_ready",
         run.scope # "worktree",
         UNCHANGED <<effect, evidence, world, unit, local, bounds>>,
         IF status = "started" THEN n = NextId(Current)
         ELSE Current.status = "started" /\ n = Current.id
  PROVE  /\ RunTyped(run') /\ StateTyped' /\ StageOK' /\ ProgressOK' /\ EffectsOK'
         /\ PublishedOK' /\ AttemptsValid'
         /\ \A i \in DOMAIN run'.attempts : run'.attempts[i].id <= Current'.id
         /\ Current'.id = IF status = "started" THEN Current.id + 1 ELSE Current.id
<1>. USE DEF IInv
<1>1. /\ RunTyped(run') /\ pc' = next
      /\ run'.checkpoint = run.checkpoint /\ run'.published = run.published
      /\ run'.scope = run.scope /\ run'.last = "implementation.attempt"
      /\ run'.attempts = Append(run.attempts, Attempt(n, status, b))
      /\ run'.attempts # <<>>
      /\ Attempt(n, status, b) \in Attempts
      /\ Current' = Attempt(n, status, b) /\ Current'.id = n
      /\ \A i \in DOMAIN run'.attempts :
            \/ i \in DOMAIN run.attempts /\ run'.attempts[i] = run.attempts[i]
            \/ run'.attempts[i] = Current'
  BY Recorded
<1>2. StateTyped'
  BY <1>1 DEF StateTyped, Steps, world, local, bounds
<1>3. StageOK'
  BY <1>1 DEF StageOK, ClaimSteps, WorktreeSteps, OpenSteps, PublishSteps
<1>5. ProgressOK'
  BY <1>1 DEF ProgressOK
<1>6. EffectsOK'
  BY <1>1 DEF EffectsOK, EffectsLead, CreatedOnce, IsPublished, ClaimSteps, WorktreeSteps,
              HasWorktree, world
<1>7. PublishedOK'
  BY <1>1, PublicationsKept
<1>8. AttemptsValid'
  <2>1. ValidHistory(run.attempts) /\ run.attempts \in Seq(Attempts)
    BY DEF AttemptsOK, AttemptsValid, ValidHistory, RunTyped
  <2>2. ValidHistory(Append(run.attempts, Attempt(n, status, b)))
    BY <1>1, <2>1, HistoryGrows DEF Attempt, Current
  <2>. QED BY <1>1, <2>2 DEF AttemptsValid, ValidHistory
<1>9. Current'.id = IF status = "started" THEN Current.id + 1 ELSE Current.id
  BY <1>1, NextIds DEF Ids
<1>10. \A i \in DOMAIN run'.attempts : run'.attempts[i].id <= Current'.id
  <2>1. \A i \in DOMAIN run.attempts : run.attempts[i].id \in Nat
    BY AttemptAt DEF RunTyped, Ids
  <2>2. Current.id \in Nat /\ Current'.id \in Nat
    BY <1>9, NextIds
  <2>. QED BY <1>1, <1>9, <2>1, <2>2 DEF AttemptsOK
<1>. QED BY <1>1, <1>2, <1>3, <1>5, <1>6, <1>7, <1>8, <1>9, <1>10

\* Evidence is only written for the open attempt, of which the Event History tells no end.
LEMMA EvidenceWritten ==
  ASSUME IInv, UNCHANGED <<run, ran>>, Current.status = "started",
         \A m \in Ids : m # Current.id => evidence'[m] = evidence[m],
         pc' \in OpenSteps, pc' \in {"prompt", "agent"} => pc = "prompt"
  PROVE  Current' = Current /\ AttemptsOK' /\ SpentOK' /\ RecordTellsEvidence'
<1>1. Current' = Current
  BY DEF Current
<1>2. AttemptsOK'
  BY <1>1 DEF IInv, AttemptsOK, AttemptsValid, OpenSteps
<1>3. SpentOK'
  BY <1>1 DEF IInv, SpentOK, Ids
<1>4. RecordTellsEvidence'
  <2>1. ASSUME NEW i \in DOMAIN run.attempts, run.attempts[i].status # "started"
        PROVE  evidence'[run.attempts[i].id] = evidence[run.attempts[i].id]
    <3>1. run.attempts[i].id \in Ids
      BY AttemptAt DEF IInv, RunTyped
    <3>2. run.attempts[i].id < Current.id
      BY <2>1 DEF IInv, AttemptsOK
    <3>. QED BY <3>1, <3>2 DEF Ids
  <2>. QED BY <2>1 DEF IInv, EvidenceOK, RecordTellsEvidence
<1>. QED BY <1>1, <1>2, <1>3, <1>4

\* One step per action; the parts of the invariant need each other.
LEMMA ClaimKeeps ==
  ASSUME IInv, ClaimStep
  PROVE  IInv'
<1>. USE ImplementationConstants, Stops
  DEF Goto, Record, Fault, NoFault, Prepare, Confirm, durable, world, local, bounds, HasWorktree,
      ClaimSteps, WorktreeSteps, OpenSteps, RulingSteps, PublishSteps, IInv
<1>1. ASSUME Claim PROVE IInv'
  <2>1. RunTyped(run')
    BY <1>1 DEF Claim, RunTyped, Kinds
  <2>2. StateTyped'
    BY <1>1, Queues DEF Claim, StateTyped, Steps
  <2>3. StageOK'
    BY <1>1, <2>1 DEF Claim, StageOK, ProgressOK, RunTyped
  <2>4. ProgressOK'
    BY <1>1, <2>1 DEF Claim, StageOK, ProgressOK, RunTyped, Current
  <2>5. EffectsOK'
    BY <1>1, <2>1 DEF Claim, StageOK, EffectsOK, EffectsLead, CreatedOnce, IsPublished,
       RunTyped, StateTyped
  <2>6. AttemptsOK' /\ SpentOK' /\ EvidenceOK'
    BY <1>1, AttemptsKept DEF Claim, RunTyped
  <2>7. PublishedOK'
    BY <1>1, PublicationsKept DEF Claim, RunTyped, StageOK
  <2>. QED BY <2>1, <2>2, <2>3, <2>4, <2>5, <2>6, <2>7
<1>2. ASSUME ShowBead PROVE IInv'
  <2>1. RunTyped(run')
    BY <1>2 DEF ShowBead, RunTyped, Kinds
  <2>2. StateTyped'
    BY <1>2, Queues DEF ShowBead, StateTyped, Steps
  <2>3. StageOK'
    BY <1>2, <2>1 DEF ShowBead, StageOK, ProgressOK, RunTyped
  <2>4. ProgressOK'
    BY <1>2, <2>1 DEF ShowBead, StageOK, ProgressOK, RunTyped, Current
  <2>5. EffectsOK'
    BY <1>2, <2>1 DEF ShowBead, StageOK, EffectsOK, EffectsLead, CreatedOnce, IsPublished,
       RunTyped, StateTyped
  <2>6. AttemptsOK' /\ SpentOK' /\ EvidenceOK'
    BY <1>2, AttemptsKept DEF ShowBead, RunTyped
  <2>7. PublishedOK'
    BY <1>2, PublicationsKept DEF ShowBead, RunTyped, StageOK
  <2>. QED BY <2>1, <2>2, <2>3, <2>4, <2>5, <2>6, <2>7
<1>3. ASSUME TakeBead PROVE IInv'
  <2>1. RunTyped(run')
    BY <1>3 DEF TakeBead, RunTyped, Kinds
  <2>2. StateTyped'
    BY <1>3, Queues DEF TakeBead, StateTyped, Steps
  <2>3. StageOK'
    BY <1>3, <2>1 DEF TakeBead, StageOK, ProgressOK, RunTyped
  <2>4. ProgressOK'
    BY <1>3, <2>1 DEF TakeBead, StageOK, ProgressOK, RunTyped, Current
  <2>5. EffectsOK'
    BY <1>3, <2>1 DEF TakeBead, StageOK, EffectsOK, EffectsLead, CreatedOnce, IsPublished,
       RunTyped, StateTyped
  <2>6. AttemptsOK' /\ SpentOK' /\ EvidenceOK'
    BY <1>3, AttemptsKept DEF TakeBead, RunTyped
  <2>7. PublishedOK'
    BY <1>3, PublicationsKept DEF TakeBead, RunTyped, StageOK
  <2>. QED BY <2>1, <2>2, <2>3, <2>4, <2>5, <2>6, <2>7
<1>4. ASSUME ShowAgain PROVE IInv'
  <2>1. RunTyped(run')
    BY <1>4 DEF ShowAgain, RunTyped, Kinds
  <2>2. StateTyped'
    BY <1>4, Queues DEF ShowAgain, StateTyped, Steps
  <2>3. StageOK'
    BY <1>4, <2>1 DEF ShowAgain, StageOK, ProgressOK, RunTyped
  <2>4. ProgressOK'
    BY <1>4, <2>1 DEF ShowAgain, StageOK, ProgressOK, RunTyped, Current
  <2>5. EffectsOK'
    BY <1>4, <2>1 DEF ShowAgain, StageOK, EffectsOK, EffectsLead, CreatedOnce, IsPublished,
       RunTyped, StateTyped
  <2>6. AttemptsOK' /\ SpentOK' /\ EvidenceOK'
    BY <1>4, AttemptsKept DEF ShowAgain, RunTyped
  <2>7. PublishedOK'
    BY <1>4, PublicationsKept DEF ShowAgain, RunTyped, StageOK
  <2>. QED BY <2>1, <2>2, <2>3, <2>4, <2>5, <2>6, <2>7
<1>5. ASSUME ConfirmClaim PROVE IInv'
  <2>1. RunTyped(run')
    BY <1>5 DEF ConfirmClaim, RunTyped, Kinds
  <2>2. StateTyped'
    BY <1>5, Queues DEF ConfirmClaim, StateTyped, Steps
  <2>3. StageOK'
    BY <1>5, <2>1 DEF ConfirmClaim, StageOK, ProgressOK, RunTyped
  <2>4. ProgressOK'
    BY <1>5, <2>1 DEF ConfirmClaim, StageOK, ProgressOK, RunTyped, Current
  <2>5. EffectsOK'
    BY <1>5, <2>1 DEF ConfirmClaim, StageOK, EffectsOK, EffectsLead, CreatedOnce,
       IsPublished, RunTyped, StateTyped
  <2>6. AttemptsOK' /\ SpentOK' /\ EvidenceOK'
    BY <1>5, AttemptsKept DEF ConfirmClaim, RunTyped
  <2>7. PublishedOK'
    BY <1>5, PublicationsKept DEF ConfirmClaim, RunTyped, StageOK
  <2>. QED BY <2>1, <2>2, <2>3, <2>4, <2>5, <2>6, <2>7
<1>6. ASSUME RecordClaim PROVE IInv'
  <2>1. todo' \in Seq(Phases) /\ pc' \in Steps
    BY <1>6, ClaimRecorded, Queues DEF Steps
  <2>2. RunTyped(run')
    BY <1>6, ClaimRecorded
  <2>3. StateTyped'
    BY <1>6, <2>1 DEF RecordClaim, StateTyped
  <2>4. StageOK'
    BY <1>6, ClaimRecorded DEF StageOK, ProgressOK, RecordClaim
  <2>5. ProgressOK'
    BY <1>6, ClaimRecorded DEF StageOK, ProgressOK, RecordClaim
  <2>6. EffectsOK'
    BY <1>6, ClaimRecorded DEF RecordClaim, StageOK, EffectsOK, EffectsLead, CreatedOnce,
       IsPublished
  <2>7. AttemptsOK' /\ SpentOK' /\ EvidenceOK'
    BY <1>6, ClaimRecorded, AttemptsKept DEF RecordClaim
  <2>8. PublishedOK'
    BY <1>6, ClaimRecorded, PublicationsKept DEF RecordClaim, StageOK
  <2>. QED BY <2>2, <2>3, <2>4, <2>5, <2>6, <2>7, <2>8
<1>. QED BY <1>1, <1>2, <1>3, <1>4, <1>5, <1>6 DEF ClaimStep

LEMMA WorktreeKeeps ==
  ASSUME IInv, WorktreeStep
  PROVE  IInv'
<1>. USE ImplementationConstants, Stops
  DEF Goto, Record, Fault, NoFault, Prepare, Confirm, durable, world, local, bounds, HasWorktree,
      ClaimSteps, WorktreeSteps, OpenSteps, RulingSteps, PublishSteps, IInv
<1>1. ASSUME Worktree PROVE IInv'
  <2>1. RunTyped(run')
    BY <1>1 DEF Worktree, RunTyped, Kinds
  <2>2. StateTyped'
    BY <1>1, Queues DEF Worktree, StateTyped, Steps
  <2>3. StageOK'
    BY <1>1, <2>1 DEF Worktree, StageOK, ProgressOK, RunTyped
  <2>4. ProgressOK'
    BY <1>1, <2>1 DEF Worktree, StageOK, ProgressOK, RunTyped, Current
  <2>5. EffectsOK'
    BY <1>1, <2>1 DEF Worktree, StageOK, EffectsOK, EffectsLead, CreatedOnce, IsPublished,
       RunTyped, StateTyped
  <2>6. AttemptsOK' /\ SpentOK' /\ EvidenceOK'
    BY <1>1, AttemptsKept DEF Worktree, RunTyped
  <2>7. PublishedOK'
    BY <1>1, PublicationsKept DEF Worktree, RunTyped, StageOK
  <2>. QED BY <2>1, <2>2, <2>3, <2>4, <2>5, <2>6, <2>7
<1>2. ASSUME BeginAdd PROVE IInv'
  <2>1. RunTyped(run')
    BY <1>2 DEF BeginAdd, RunTyped, Kinds
  <2>2. StateTyped'
    BY <1>2, Queues DEF BeginAdd, StateTyped, Steps
  <2>3. StageOK'
    BY <1>2, <2>1 DEF BeginAdd, StageOK, ProgressOK, RunTyped
  <2>4. ProgressOK'
    BY <1>2, <2>1 DEF BeginAdd, StageOK, ProgressOK, RunTyped, Current
  <2>5. EffectsOK'
    BY <1>2, <2>1 DEF BeginAdd, StageOK, EffectsOK, EffectsLead, CreatedOnce, IsPublished,
       RunTyped, StateTyped
  <2>6. AttemptsOK' /\ SpentOK' /\ EvidenceOK'
    BY <1>2, AttemptsKept DEF BeginAdd, RunTyped
  <2>7. PublishedOK'
    BY <1>2, PublicationsKept DEF BeginAdd, RunTyped, StageOK
  <2>. QED BY <2>1, <2>2, <2>3, <2>4, <2>5, <2>6, <2>7
<1>3. ASSUME EndAdd PROVE IInv'
  <2>1. RunTyped(run')
    BY <1>3 DEF EndAdd, RunTyped, Kinds
  <2>2. StateTyped'
    BY <1>3, Queues DEF EndAdd, StateTyped, Steps
  <2>3. StageOK'
    BY <1>3, <2>1 DEF EndAdd, StageOK, ProgressOK, RunTyped
  <2>4. ProgressOK'
    BY <1>3, <2>1 DEF EndAdd, StageOK, ProgressOK, RunTyped, Current
  <2>5. EffectsOK'
    BY <1>3, <2>1 DEF EndAdd, StageOK, EffectsOK, EffectsLead, CreatedOnce, IsPublished,
       RunTyped, StateTyped
  <2>6. AttemptsOK' /\ SpentOK' /\ EvidenceOK'
    BY <1>3, AttemptsKept DEF EndAdd, RunTyped
  <2>7. PublishedOK'
    BY <1>3, PublicationsKept DEF EndAdd, RunTyped, StageOK
  <2>. QED BY <2>1, <2>2, <2>3, <2>4, <2>5, <2>6, <2>7
<1>4. ASSUME ConfirmWorktree PROVE IInv'
  <2>1. RunTyped(run')
    BY <1>4 DEF ConfirmWorktree, RunTyped, Kinds
  <2>2. StateTyped'
    BY <1>4, Queues DEF ConfirmWorktree, StateTyped, Steps
  <2>3. StageOK'
    BY <1>4, <2>1 DEF ConfirmWorktree, StageOK, ProgressOK, RunTyped
  <2>4. ProgressOK'
    BY <1>4, <2>1 DEF ConfirmWorktree, StageOK, ProgressOK, RunTyped, Current
  <2>5. EffectsOK'
    BY <1>4, <2>1 DEF ConfirmWorktree, StageOK, EffectsOK, EffectsLead, CreatedOnce,
       IsPublished, RunTyped, StateTyped
  <2>6. AttemptsOK' /\ SpentOK' /\ EvidenceOK'
    BY <1>4, AttemptsKept DEF ConfirmWorktree, RunTyped
  <2>7. PublishedOK'
    BY <1>4, PublicationsKept DEF ConfirmWorktree, RunTyped, StageOK
  <2>. QED BY <2>1, <2>2, <2>3, <2>4, <2>5, <2>6, <2>7
<1>5. ASSUME RecordWorktree PROVE IInv'
  <2>1. todo' \in Seq(Phases) /\ pc' \in Steps
    BY <1>5, WorktreeRecorded, Queues DEF Steps
  <2>2. RunTyped(run')
    BY <1>5, WorktreeRecorded
  <2>3. StateTyped'
    BY <1>5, <2>1 DEF RecordWorktree, StateTyped
  <2>4. StageOK'
    BY <1>5, WorktreeRecorded DEF StageOK, ProgressOK, RecordWorktree
  <2>5. ProgressOK'
    BY <1>5, WorktreeRecorded DEF StageOK, ProgressOK, RecordWorktree
  <2>6. EffectsOK'
    BY <1>5, WorktreeRecorded DEF RecordWorktree, StageOK, EffectsOK, EffectsLead, CreatedOnce,
       IsPublished
  <2>7. AttemptsOK' /\ SpentOK' /\ EvidenceOK'
    BY <1>5, WorktreeRecorded, AttemptsKept DEF RecordWorktree
  <2>8. PublishedOK'
    BY <1>5, WorktreeRecorded, PublicationsKept DEF RecordWorktree, StageOK
  <2>. QED BY <2>2, <2>3, <2>4, <2>5, <2>6, <2>7, <2>8
<1>. QED BY <1>1, <1>2, <1>3, <1>4, <1>5 DEF WorktreeStep

LEMMA AttemptKeeps ==
  ASSUME IInv, AttemptStep
  PROVE  IInv'
<1>. USE ImplementationConstants, Stops
  DEF Goto, Record, Fault, NoFault, Prepare, Confirm, durable, world, local, bounds, HasWorktree,
      ClaimSteps, WorktreeSteps, OpenSteps, RulingSteps, PublishSteps, IInv
<1>1. ASSUME Candidate PROVE IInv'
  <2>1. NextId(Current) # 0 => Current.status \in {"none", "interrupted"}
    BY NextIds
  <2>2. /\ UNCHANGED <<evidence, tree, hand, again>> /\ run'.attempts = run.attempts
        /\ pc' \in {"recover", "start_attempt", "verify", "end"}
    BY <1>1 DEF Candidate, RunTyped
  <2>3. Current' = Current /\ RecordTellsEvidence'
    BY <2>2 DEF Current, EvidenceOK, RecordTellsEvidence
  <2>4. RunTyped(run')
    BY <1>1 DEF Candidate, RunTyped, Kinds
  <2>5. StateTyped'
    BY <1>1, Queues DEF Candidate, StateTyped, Steps
  <2>6. StageOK'
    BY <1>1, <2>1, <2>4 DEF Candidate, StageOK, ProgressOK, RunTyped
  <2>7. ProgressOK'
    BY <1>1, <2>4 DEF Candidate, StageOK, ProgressOK, RunTyped, Current
  <2>8. EffectsOK'
    BY <1>1, <2>4 DEF Candidate, StageOK, EffectsOK, EffectsLead, CreatedOnce, IsPublished,
       RunTyped, StateTyped
  <2>9. AttemptsOK' /\ SpentOK'
    BY <1>1, <2>4 DEF Candidate, AttemptsOK, SpentOK, StageOK, RunTyped, Current,
       AttemptsValid
  <2>10. EvidenceOK'
    BY <2>2, <2>3 DEF EvidenceOK
  <2>11. PublishedOK'
    BY <1>1, PublicationsKept DEF Candidate, RunTyped, StageOK
  <2>. QED BY <2>4, <2>5, <2>6, <2>7, <2>8, <2>9, <2>10, <2>11
<1>2. ASSUME StartAttempt PROVE IInv'
  <2>1. CASE Stop("candidate")
    <3>1. RunTyped(run')
      BY <2>1
    <3>2. UNCHANGED <<effect, evidence, world, unit, local>>
      BY <1>2 DEF StartAttempt
    <3>3. UNCHANGED bounds \/ Fault("git")
      BY <1>2 DEF StartAttempt
    <3>4. StateTyped'
      BY <2>1, <3>2, <3>3 DEF StateTyped, Steps
    <3>5. StageOK' /\ EffectsOK'
      BY <1>2, <2>1 DEF StartAttempt, StageOK, EffectsOK, EffectsLead, CreatedOnce, IsPublished
    <3>6. AttemptsOK' /\ SpentOK' /\ EvidenceOK' /\ Current' = Current
      BY <1>2, <2>1, AttemptsKept DEF StartAttempt
    <3>7. ProgressOK'
      BY <2>1, <3>6 DEF ProgressOK
    <3>8. PublishedOK'
      BY <2>1, PublicationsKept
    <3>. QED BY <3>1, <3>5, <3>6, <3>7, <3>8, <3>4
  <2>2. CASE RecordAttempt(NextId(Current), "started", FALSE, "prompt") /\ UNCHANGED bounds
    <3> DEFINE n == NextId(Current)
    <3>1. /\ n \in Ids /\ n = Current.id + 1
          /\ \/ Current.status = "none" /\ Current.id = 0
             \/ Current.status = "interrupted" /\ Current.retryable /\ Current.id = 1
          /\ run.checkpoint = "worktree_ready" /\ run.scope # "worktree"
          /\ UNCHANGED <<effect, evidence, world, unit, local, bounds>>
      BY <1>2, <2>2, NextIds DEF StartAttempt, AttemptsOK, StageOK
    <3>. HIDE DEF n
    <3>2. RecordAttempt(n, "started", FALSE, "prompt") /\ n = NextId(Current)
      BY <2>2 DEF n
    <3>3. /\ RunTyped(run') /\ StateTyped' /\ StageOK' /\ ProgressOK' /\ EffectsOK'
          /\ PublishedOK' /\ AttemptsValid'
          /\ \A i \in DOMAIN run'.attempts : run'.attempts[i].id <= Current'.id
      BY <3>1, <3>2, RecordKeeps
    <3>4. /\ pc' = "prompt" /\ Current'.id = n /\ Current'.status = "started"
          /\ \A i \in DOMAIN run'.attempts :
                \/ i \in DOMAIN run.attempts /\ run'.attempts[i] = run.attempts[i]
                \/ run'.attempts[i] = Current'
      BY <3>1, <3>2, Recorded
    <3>5. /\ \A i \in DOMAIN run.attempts : run.attempts[i].id \in Nat
          /\ \A m \in ran : m \in Nat
          /\ Current.id \in Nat
      <4>1. \A i \in DOMAIN run.attempts : run.attempts[i].id \in Nat
        BY AttemptAt DEF RunTyped, Ids
      <4>. QED BY <4>1, NextIds DEF StateTyped, Ids
    <3>6. AttemptsOK' /\ (\A m \in ran' : m < n)
      BY <3>1, <3>3, <3>4, <3>5 DEF AttemptsOK, SpentOK
    <3>7. n = 2 => evidence[1].sealed /\ evidence[1].recovery.retryable
      <4>1. SUFFICES ASSUME n = 2 PROVE evidence[1].sealed /\ evidence[1].recovery.retryable
        OBVIOUS
      <4>2. Current.status = "interrupted" /\ Current.retryable /\ Current.id = 1
        BY <3>1, <4>1
      <4>3. PICK i \in DOMAIN run.attempts : run.attempts[i] = Current
        BY <4>2, LastAttempt DEF RunTyped, Current
      <4>. QED BY <4>2, <4>3 DEF EvidenceOK, RecordTellsEvidence
    <3>8. SpentOK'
      BY <3>1, <3>4, <3>5, <3>6, <3>7 DEF SpentOK
    <3>9. RecordTellsEvidence'
      BY <3>1, <3>4 DEF EvidenceOK, RecordTellsEvidence
    <3>10. evidence[n] = NoEvidence
      BY <3>1, <3>5 DEF EvidenceOK
    <3>11. EvidenceOK'
      BY <3>1, <3>4, <3>5, <3>9, <3>10 DEF EvidenceOK, NoEvidence, Ids
    <3>. QED BY <3>3, <3>6, <3>8, <3>11
  <2>. QED BY <1>2, <2>1, <2>2 DEF StartAttempt

<1>3. ASSUME WritePrompt PROVE IInv'
  <2>1. /\ Current.status = "started" /\ Current.id \in Ids
        /\ evidence \in [Ids -> EvidenceRecords]
    BY <1>3, NextIds DEF WritePrompt, AttemptsOK, StateTyped, EvidenceRecords
  <2>2. Writes(evidence', evidence, Current.id, evidence[Current.id].report,
          evidence[Current.id].recovery, evidence[Current.id].sealed)
    BY <1>3, <2>1, WritesDir DEF WritePrompt
  <2>3. UNCHANGED <<run, ran>>
    BY <1>3 DEF WritePrompt
  <2>4. Current' = Current /\ AttemptsOK' /\ SpentOK' /\ RecordTellsEvidence'
    BY <1>3, <2>1, <2>2, <2>3, EvidenceWritten DEF WritePrompt, Writes
  <2>5. RunTyped(run')
    BY <1>3 DEF WritePrompt, RunTyped, Kinds
  <2>6. StateTyped'
    BY <1>3, <2>2 DEF WritePrompt, StateTyped, Steps, Writes, EvidenceRecords
  <2>7. StageOK'
    BY <1>3, <2>5 DEF WritePrompt, StageOK, ProgressOK, RunTyped
  <2>8. ProgressOK'
    BY <1>3, <2>5 DEF WritePrompt, StageOK, ProgressOK, RunTyped, Current
  <2>9. EffectsOK'
    BY <1>3, <2>5 DEF WritePrompt, StageOK, EffectsOK, EffectsLead, CreatedOnce, IsPublished,
       RunTyped, StateTyped
  <2>10. AttemptsOK' /\ SpentOK'
    BY <2>4
  <2>11. EvidenceOK'
    BY <1>3, <2>1, <2>2, <2>4 DEF WritePrompt, EvidenceOK, Writes, Ids
  <2>12. PublishedOK'
    BY <1>3, PublicationsKept DEF WritePrompt, RunTyped, StageOK
  <2>. QED BY <2>5, <2>6, <2>7, <2>8, <2>9, <2>10, <2>11, <2>12
<1>4. ASSUME NEW t \in {"base", "dirty", "commit"}, StartAgent(t) PROVE IInv'
  <2>1. /\ Current.status = "started" /\ Current.id \in Ids /\ Current' = Current
        /\ ran' = ran \cup {Current.id}
    BY <1>4, NextIds DEF StartAgent, AttemptsOK, Current
  <2>2. RunTyped(run')
    BY <1>4 DEF StartAgent, RunTyped, Kinds
  <2>3. StateTyped'
    BY <1>4, <2>1 DEF StartAgent, StateTyped, Steps
  <2>4. StageOK'
    BY <1>4, <2>2 DEF StartAgent, StageOK, ProgressOK, RunTyped
  <2>5. ProgressOK'
    BY <1>4, <2>2 DEF StartAgent, StageOK, ProgressOK, RunTyped, Current
  <2>6. EffectsOK'
    BY <1>4, <2>2 DEF StartAgent, StageOK, EffectsOK, EffectsLead, CreatedOnce, IsPublished,
       RunTyped, StateTyped
  <2>7. AttemptsOK' /\ SpentOK'
    BY <1>4, <2>1 DEF StartAgent, AttemptsOK, SpentOK, AttemptsValid, Ids
  <2>8. EvidenceOK'
    BY <1>4, <2>1 DEF StartAgent, EvidenceOK, RecordTellsEvidence
  <2>9. PublishedOK'
    BY <1>4, PublicationsKept DEF StartAgent, RunTyped, StageOK
  <2>. QED BY <2>2, <2>3, <2>4, <2>5, <2>6, <2>7, <2>8, <2>9
<1>5. ASSUME NEW report \in Reports, AgentReports(report) PROVE IInv'
  <2>1. /\ Current.status = "started" /\ Current.id \in Ids
        /\ evidence \in [Ids -> EvidenceRecords]
    BY <1>5, NextIds DEF AgentReports, AttemptsOK, StateTyped, EvidenceRecords
  <2>2. Writes(evidence', evidence, Current.id, report, evidence[Current.id].recovery,
          evidence[Current.id].sealed)
    BY <1>5, <2>1, WritesReport DEF AgentReports
  <2>3. UNCHANGED <<run, ran>>
    BY <1>5 DEF AgentReports
  <2>4. Current' = Current /\ AttemptsOK' /\ SpentOK' /\ RecordTellsEvidence'
    BY <1>5, <2>1, <2>2, <2>3, EvidenceWritten DEF AgentReports, Writes
  <2>5. RunTyped(run')
    BY <1>5 DEF AgentReports, RunTyped, Kinds
  <2>6. StateTyped'
    BY <1>5, <2>2 DEF AgentReports, StateTyped, Steps, Writes, EvidenceRecords
  <2>7. StageOK'
    BY <1>5, <2>5 DEF AgentReports, StageOK, ProgressOK, RunTyped
  <2>8. ProgressOK'
    BY <1>5, <2>5 DEF AgentReports, StageOK, ProgressOK, RunTyped, Current
  <2>9. EffectsOK'
    BY <1>5, <2>5 DEF AgentReports, StageOK, EffectsOK, EffectsLead, CreatedOnce,
       IsPublished, RunTyped, StateTyped
  <2>10. AttemptsOK' /\ SpentOK'
    BY <2>4
  <2>11. EvidenceOK'
    BY <1>5, <2>1, <2>2, <2>4 DEF AgentReports, EvidenceOK, Writes, Ids
  <2>12. PublishedOK'
    BY <1>5, PublicationsKept DEF AgentReports, RunTyped, StageOK
  <2>. QED BY <2>5, <2>6, <2>7, <2>8, <2>9, <2>10, <2>11, <2>12
<1>6. ASSUME AgentIsSilent PROVE IInv'
  <2>1. /\ hand' = Ruling("no report", FALSE) /\ hand' \in Rulings /\ hand' # NoRuling
        /\ ~hand'.retryable /\ Current' = Current /\ again' = FALSE
    BY <1>6, RulingsTyped DEF AgentIsSilent, Current
  <2>2. /\ UNCHANGED <<effect, evidence, world, unit, todo, bounds>> /\ pc' = "write_ruling"
        /\ again' \in BOOLEAN
    BY <1>6 DEF AgentIsSilent
  <2>3. /\ hand' \in Rulings /\ again' \in BOOLEAN /\ pc' \in Steps
         /\ UNCHANGED <<effect, evidence, world, unit, todo, bounds>>
    BY <2>1, <2>2 DEF Steps
  <2>4. RunTyped(run')
    BY <1>6 DEF AgentIsSilent
  <2>5. StateTyped'
    BY <2>3 DEF StateTyped
  <2>6. StageOK'
    BY <1>6, <2>4 DEF AgentIsSilent, StageOK, ProgressOK, RunTyped
  <2>7. ProgressOK'
    BY <1>6, <2>4 DEF AgentIsSilent, StageOK, ProgressOK, RunTyped, Current
  <2>8. EffectsOK'
    BY <1>6, <2>4 DEF AgentIsSilent, StageOK, EffectsOK, EffectsLead, CreatedOnce,
       IsPublished, RunTyped, StateTyped
  <2>9. AttemptsOK' /\ SpentOK'
    BY <1>6, <2>4 DEF AgentIsSilent, AttemptsOK, SpentOK, StageOK, RunTyped, Current,
       AttemptsValid
  <2>10. EvidenceOK'
    BY <1>6, <2>1 DEF AgentIsSilent, EvidenceOK, RecordTellsEvidence
  <2>11. PublishedOK'
    BY <1>6, PublicationsKept DEF AgentIsSilent, RunTyped, StageOK
  <2>. QED BY <2>4, <2>5, <2>6, <2>7, <2>8, <2>9, <2>10, <2>11
<1>7. ASSUME AgentFails PROVE IInv'
  <2>1. RunTyped(run')
    BY <1>7 DEF AgentFails, RunTyped, Kinds
  <2>2. StateTyped'
    BY <1>7, Queues DEF AgentFails, StateTyped, Steps
  <2>3. StageOK'
    BY <1>7, <2>1 DEF AgentFails, StageOK, ProgressOK, RunTyped
  <2>4. ProgressOK'
    BY <1>7, <2>1 DEF AgentFails, StageOK, ProgressOK, RunTyped, Current
  <2>5. EffectsOK'
    BY <1>7, <2>1 DEF AgentFails, StageOK, EffectsOK, EffectsLead, CreatedOnce, IsPublished,
       RunTyped, StateTyped
  <2>6. AttemptsOK' /\ SpentOK' /\ EvidenceOK'
    BY <1>7, AttemptsKept DEF AgentFails
  <2>7. EvidenceOK'
    BY <2>6
  <2>8. PublishedOK'
    BY <1>7, PublicationsKept DEF AgentFails, RunTyped, StageOK
  <2>. QED BY <2>1, <2>2, <2>3, <2>4, <2>5, <2>6, <2>7, <2>8
<1>8. ASSUME Accept PROVE IInv'
  <2>1. /\ Current.status = "started" /\ Current.id \in Ids
        /\ Current' = Current /\ run'.attempts = run.attempts /\ UNCHANGED <<evidence, tree, todo>>
    BY <1>8, NextIds DEF Accept, AttemptsOK, RunTyped, Current
  <2>2. \/ pc' = "seal_report" /\ Acceptable(Current.id) /\ UNCHANGED <<hand, again>>
        \/ /\ pc' = "write_ruling" /\ ~Acceptable(Current.id) /\ again' = FALSE
           /\ hand' \in Rulings /\ hand' # NoRuling /\ (hand'.retryable => Current.id = 1)
        \/ pc' = "end" /\ UNCHANGED <<hand, again>>
    BY <1>8, RulingsTyped DEF Accept
  <2>3. hand' \in Rulings /\ again' \in BOOLEAN
    BY <2>2 DEF StateTyped
  <2>4. RunTyped(run')
    BY <1>8 DEF Accept, RunTyped, Kinds
  <2>5. StateTyped'
    BY <1>8, <2>3 DEF Accept, StateTyped, Steps
  <2>6. StageOK'
    BY <1>8, <2>4 DEF Accept, StageOK, ProgressOK, RunTyped
  <2>7. ProgressOK'
    BY <1>8, <2>4 DEF Accept, StageOK, ProgressOK, RunTyped, Current
  <2>8. EffectsOK'
    BY <1>8, <2>4 DEF Accept, StageOK, EffectsOK, EffectsLead, CreatedOnce, IsPublished,
       RunTyped, StateTyped
  <2>9. AttemptsOK' /\ SpentOK'
    BY <1>8, <2>1, <2>2 DEF Accept, AttemptsOK, SpentOK, AttemptsValid
  <2>10. EvidenceOK'
    <3>1. RecordTellsEvidence'
      BY <2>1 DEF EvidenceOK, RecordTellsEvidence
    <3>. QED BY <1>8, <2>1, <2>2, <3>1 DEF Accept, Acceptable, EvidenceOK
  <2>11. PublishedOK'
    BY <1>8, PublicationsKept DEF Accept, RunTyped, StageOK
  <2>. QED BY <2>4, <2>5, <2>6, <2>7, <2>8, <2>9, <2>10, <2>11
<1>9. ASSUME SealReport PROVE IInv'
  <2>1. /\ Current.status = "started" /\ Current.id \in Ids
        /\ evidence \in [Ids -> EvidenceRecords]
    BY <1>9, NextIds DEF SealReport, AttemptsOK, StateTyped, EvidenceRecords
  <2>2. Writes(evidence', evidence, Current.id, evidence[Current.id].report,
          evidence[Current.id].recovery, TRUE)
    BY <1>9, <2>1, WritesSeal DEF SealReport
  <2>3. UNCHANGED <<run, ran>>
    BY <1>9 DEF SealReport
  <2>4. Current' = Current /\ AttemptsOK' /\ SpentOK' /\ RecordTellsEvidence'
    BY <1>9, <2>1, <2>2, <2>3, EvidenceWritten DEF SealReport, Writes
  <2>5. RunTyped(run')
    BY <1>9 DEF SealReport, RunTyped, Kinds
  <2>6. StateTyped'
    BY <1>9, <2>2 DEF SealReport, StateTyped, Steps, Writes, EvidenceRecords
  <2>7. StageOK'
    BY <1>9, <2>5 DEF SealReport, StageOK, ProgressOK, RunTyped
  <2>8. ProgressOK'
    BY <1>9, <2>5 DEF SealReport, StageOK, ProgressOK, RunTyped, Current
  <2>9. EffectsOK'
    BY <1>9, <2>5 DEF SealReport, StageOK, EffectsOK, EffectsLead, CreatedOnce, IsPublished,
       RunTyped, StateTyped
  <2>10. AttemptsOK' /\ SpentOK'
    BY <2>4
  <2>11. EvidenceOK'
    BY <1>9, <2>1, <2>2, <2>4 DEF SealReport, EvidenceOK, Writes, Ids
  <2>12. PublishedOK'
    BY <1>9, PublicationsKept DEF SealReport, RunTyped, StageOK
  <2>. QED BY <2>5, <2>6, <2>7, <2>8, <2>9, <2>10, <2>11, <2>12
<1>10. ASSUME FinishAttempt PROVE IInv'
  <2>1. /\ Current.status = "started" /\ Current.id \in Ids
        /\ run.checkpoint = "worktree_ready" /\ run.scope # "worktree"
        /\ evidence[Current.id].sealed /\ evidence[Current.id].report = "completed"
        /\ evidence[Current.id].recovery = NoRuling
        /\ RecordAttempt(Current.id, "completed", FALSE, "verify")
        /\ UNCHANGED <<effect, evidence, world, unit, local, bounds>>
    BY <1>10, NextIds DEF FinishAttempt, AttemptsOK, EvidenceOK, StageOK
  <2>2. /\ RunTyped(run') /\ StateTyped' /\ StageOK' /\ ProgressOK' /\ EffectsOK'
        /\ PublishedOK' /\ AttemptsValid'
        /\ \A i \in DOMAIN run'.attempts : run'.attempts[i].id <= Current'.id
    BY <2>1, RecordKeeps
  <2>3. /\ pc' = "verify" /\ Current'.id = Current.id /\ Current'.status = "completed"
         /\ Current'.retryable = FALSE
         /\ \A i \in DOMAIN run'.attempts :
               \/ i \in DOMAIN run.attempts /\ run'.attempts[i] = run.attempts[i]
               \/ run'.attempts[i] = Current'
    BY <2>1, Recorded
  <2>4. AttemptsOK' /\ SpentOK'
    BY <2>1, <2>2, <2>3 DEF AttemptsOK, SpentOK
  <2>5. EvidenceOK'
    <3>1. RecordTellsEvidence'
      BY <2>1, <2>3 DEF EvidenceOK, RecordTellsEvidence
    <3>. QED BY <2>1, <2>3, <3>1 DEF EvidenceOK
  <2>. QED BY <2>4, <2>5, <2>2
<1>11. ASSUME WriteRuling PROVE IInv'
  <2>1. /\ Current.status = "started" /\ Current.id \in Ids
        /\ evidence \in [Ids -> EvidenceRecords]
        /\ hand \in Rulings /\ hand # NoRuling /\ (hand.retryable => Current.id = 1)
    BY <1>11, NextIds DEF WriteRuling, AttemptsOK, EvidenceOK, StateTyped, EvidenceRecords
  <2>2. \/ pc' = "seal_ruling" /\ UNCHANGED <<run, bounds>>
           /\ evidence' = [evidence EXCEPT ![Current.id].dir = TRUE,
                                           ![Current.id].recovery = hand]
        \/ pc' = "seal_ruling" /\ UNCHANGED <<run, bounds, evidence>>
           /\ evidence[Current.id].recovery = hand
        \/ Stop("candidate") /\ UNCHANGED <<evidence, bounds>>
    BY <1>11 DEF WriteRuling
  <2>3. \/ /\ pc' = "seal_ruling" /\ UNCHANGED <<run, bounds>>
           /\ Writes(evidence', evidence, Current.id, evidence[Current.id].report, hand,
                     evidence[Current.id].sealed)
        \/ Stop("candidate") /\ UNCHANGED <<evidence, bounds>>
    <3>1. CASE evidence' = [evidence EXCEPT ![Current.id].dir = TRUE,
                                            ![Current.id].recovery = hand]
      <4>1. Writes(evidence', evidence, Current.id, evidence[Current.id].report, hand,
                   evidence[Current.id].sealed)
        BY <2>1, <3>1, WritesRuling
      <4>. QED BY <2>2, <4>1
    <3>2. CASE UNCHANGED evidence /\ evidence[Current.id].recovery = hand
      BY <2>1, <2>2, <3>2 DEF Writes
    <3>. QED BY <2>2, <3>1, <3>2
  <2>4. AttemptsOK' /\ SpentOK' /\ EvidenceOK'
    <3>1. CASE pc' = "seal_ruling"
      <4>1. /\ UNCHANGED <<run, ran>>
            /\ Writes(evidence', evidence, Current.id, evidence[Current.id].report, hand,
                      evidence[Current.id].sealed)
        BY <1>11, <2>3, <3>1 DEF WriteRuling
      <4>2. Current' = Current /\ AttemptsOK' /\ SpentOK' /\ RecordTellsEvidence'
        BY <1>11, <2>1, <3>1, <4>1, EvidenceWritten DEF WriteRuling, Writes
      <4>3. EvidenceOK'
        BY <1>11, <2>1, <3>1, <4>1, <4>2 DEF WriteRuling, EvidenceOK, Writes, Ids
      <4>. QED BY <4>2, <4>3
    <3>2. CASE pc' # "seal_ruling"
      BY <1>11, <2>3, <3>2, AttemptsKept DEF WriteRuling
    <3>. QED BY <3>1, <3>2
  <2>5. RunTyped(run')
    BY <2>3
  <2>6. StateTyped'
    BY <1>11, <2>1, <2>3 DEF WriteRuling, StateTyped, Steps, EvidenceRecords, Writes
  <2>7. StageOK'
    BY <1>11, <2>5 DEF WriteRuling, StageOK, ProgressOK, RunTyped
  <2>8. ProgressOK'
    BY <1>11, <2>5 DEF WriteRuling, StageOK, ProgressOK, RunTyped, Current
  <2>9. EffectsOK'
    BY <1>11, <2>5 DEF WriteRuling, StageOK, EffectsOK, EffectsLead, CreatedOnce,
       IsPublished, RunTyped, StateTyped
  <2>10. AttemptsOK' /\ SpentOK'
    BY <2>4
  <2>11. EvidenceOK'
    BY <2>4
  <2>12. PublishedOK'
    BY <1>11, PublicationsKept DEF WriteRuling, RunTyped, StageOK
  <2>. QED BY <2>5, <2>6, <2>7, <2>8, <2>9, <2>10, <2>11, <2>12
<1>12. ASSUME SealRuling PROVE IInv'
  <2>1. /\ Current.status = "started" /\ Current.id \in Ids
        /\ evidence \in [Ids -> EvidenceRecords]
    BY <1>12, NextIds DEF SealRuling, AttemptsOK, StateTyped, EvidenceRecords
  <2>2. Writes(evidence', evidence, Current.id, evidence[Current.id].report,
          evidence[Current.id].recovery, TRUE)
    BY <1>12, <2>1, WritesSeal DEF SealRuling
  <2>3. UNCHANGED <<run, ran>>
    BY <1>12 DEF SealRuling
  <2>4. Current' = Current /\ AttemptsOK' /\ SpentOK' /\ RecordTellsEvidence'
    BY <1>12, <2>1, <2>2, <2>3, EvidenceWritten DEF SealRuling, Writes
  <2>5. RunTyped(run')
    BY <1>12 DEF SealRuling, RunTyped, Kinds
  <2>6. StateTyped'
    BY <1>12, <2>2 DEF SealRuling, StateTyped, Steps, Writes, EvidenceRecords
  <2>7. StageOK'
    BY <1>12, <2>5 DEF SealRuling, StageOK, ProgressOK, RunTyped
  <2>8. ProgressOK'
    BY <1>12, <2>5 DEF SealRuling, StageOK, ProgressOK, RunTyped, Current
  <2>9. EffectsOK'
    BY <1>12, <2>5 DEF SealRuling, StageOK, EffectsOK, EffectsLead, CreatedOnce, IsPublished,
       RunTyped, StateTyped
  <2>10. AttemptsOK' /\ SpentOK'
    BY <2>4
  <2>11. EvidenceOK'
    BY <1>12, <2>1, <2>2, <2>4 DEF SealRuling, EvidenceOK, Writes, Ids
  <2>12. PublishedOK'
    BY <1>12, PublicationsKept DEF SealRuling, RunTyped, StageOK
  <2>. QED BY <2>5, <2>6, <2>7, <2>8, <2>9, <2>10, <2>11, <2>12
<1>13. ASSUME InterruptAttempt PROVE IInv'
  <2>1. /\ Current.status = "started" /\ Current.id \in Ids
        /\ run.checkpoint = "worktree_ready" /\ run.scope # "worktree"
        /\ evidence[Current.id].sealed /\ evidence[Current.id].recovery = hand
        /\ hand # NoRuling /\ hand.retryable \in BOOLEAN /\ (hand.retryable => Current.id = 1)
        /\ again => hand.retryable
        /\ RecordAttempt(Current.id, "interrupted", hand.retryable, "interrupted")
        /\ UNCHANGED <<effect, evidence, world, unit, local, bounds>>
    BY <1>13, NextIds DEF InterruptAttempt, AttemptsOK, EvidenceOK, StageOK, StateTyped, Rulings
  <2>2. /\ RunTyped(run') /\ StateTyped' /\ StageOK' /\ ProgressOK' /\ EffectsOK'
        /\ PublishedOK' /\ AttemptsValid'
        /\ \A i \in DOMAIN run'.attempts : run'.attempts[i].id <= Current'.id
    BY <2>1, RecordKeeps
  <2>3. /\ pc' = "interrupted" /\ Current'.id = Current.id /\ Current'.status = "interrupted"
         /\ Current'.retryable = hand.retryable
         /\ \A i \in DOMAIN run'.attempts :
               \/ i \in DOMAIN run.attempts /\ run'.attempts[i] = run.attempts[i]
               \/ run'.attempts[i] = Current'
    BY <2>1, Recorded
  <2>4. AttemptsOK' /\ SpentOK'
    BY <2>1, <2>2, <2>3 DEF AttemptsOK, SpentOK
  <2>5. EvidenceOK'
    <3>1. RecordTellsEvidence'
      BY <2>1, <2>3 DEF EvidenceOK, RecordTellsEvidence
    <3>. QED BY <2>1, <2>3, <3>1 DEF EvidenceOK
  <2>. QED BY <2>4, <2>5, <2>2
<1>14. ASSUME AfterInterruption PROVE IInv'
  <2>1. /\ again => NextId(Current) # 0
        /\ Current' = Current /\ run'.attempts = run.attempts
    BY <1>14 DEF AfterInterruption, AttemptsOK, NextId, NoAttempt, Attempt, RunTyped, Current
  <2>2. /\ RecordTellsEvidence' /\ UNCHANGED <<evidence, tree, hand, again>>
        /\ pc' \in {"start_attempt", "end"}
    BY <1>14, <2>1 DEF AfterInterruption, EvidenceOK, RecordTellsEvidence
  <2>3. RunTyped(run')
    BY <1>14 DEF AfterInterruption, RunTyped, Kinds
  <2>4. StateTyped'
    BY <1>14, Queues DEF AfterInterruption, StateTyped, Steps
  <2>5. StageOK'
    BY <1>14, <2>3 DEF AfterInterruption, StageOK, ProgressOK, RunTyped
  <2>6. ProgressOK'
    BY <1>14, <2>3 DEF AfterInterruption, StageOK, ProgressOK, RunTyped, Current
  <2>7. EffectsOK'
    BY <1>14, <2>3 DEF AfterInterruption, StageOK, EffectsOK, EffectsLead, CreatedOnce,
       IsPublished, RunTyped, StateTyped
  <2>8. AttemptsOK' /\ SpentOK'
    BY <1>14, <2>1 DEF AfterInterruption, AttemptsOK, SpentOK, AttemptsValid
  <2>9. EvidenceOK'
    BY <2>1, <2>2 DEF EvidenceOK
  <2>10. PublishedOK'
    BY <1>14, PublicationsKept DEF AfterInterruption, RunTyped, StageOK
  <2>. QED BY <2>3, <2>4, <2>5, <2>6, <2>7, <2>8, <2>9, <2>10
<1>15. ASSUME Recover PROVE IInv'
  <2>1. /\ Current.status = "started" /\ Current.id \in Ids
        /\ Current' = Current /\ run'.attempts = run.attempts /\ UNCHANGED <<evidence, tree, todo>>
    BY <1>15, NextIds DEF Recover, AttemptsOK, RunTyped, Current
  <2>2. /\ Verdict(Current.id) \in Rulings /\ Verdict(Current.id) # NoRuling
        /\ Verdict(Current.id).retryable \in BOOLEAN
        /\ Verdict(Current.id).retryable => Current.id = 1
    <3>1. tree \in {"partial", "base", "dirty", "commit"}
      BY <1>15 DEF Recover, StageOK, EffectsOK, StateTyped
    <3>. QED BY <2>1, <3>1, RulingsTyped DEF Verdict, Ids
  <2>3. \/ /\ pc' = "interrupt" /\ evidence[Current.id].sealed
           /\ evidence[Current.id].recovery # NoRuling
           /\ hand' = evidence[Current.id].recovery /\ again' = hand'.retryable
        \/ /\ pc' = "finish_attempt" /\ evidence[Current.id].sealed /\ Acceptable(Current.id)
           /\ evidence[Current.id].recovery = NoRuling /\ UNCHANGED <<hand, again>>
        \/ pc' = "accept" /\ UNCHANGED <<hand, again>>
        \/ /\ pc' = "write_ruling" /\ evidence[Current.id].report = "none"
           /\ hand' = Verdict(Current.id) /\ again' = hand'.retryable
        \/ pc' = "end" /\ UNCHANGED <<hand, again>>
    BY <1>15 DEF Recover
  <2>4. hand' \in Rulings /\ again' \in BOOLEAN
    <3>1. \A r \in Rulings : r.retryable \in BOOLEAN
      BY DEF Rulings
    <3>2. evidence[Current.id].recovery \in Rulings /\ hand \in Rulings /\ again \in BOOLEAN
      BY <2>1 DEF StateTyped
    <3>. QED BY <2>2, <2>3, <3>1, <3>2
  <2>5. RunTyped(run')
    BY <1>15 DEF Recover, RunTyped, Kinds
  <2>6. StateTyped'
    BY <1>15, <2>3, <2>4 DEF Recover, StateTyped, Steps
  <2>7. StageOK'
    BY <1>15, <2>5 DEF Recover, StageOK, ProgressOK, RunTyped
  <2>8. ProgressOK'
    BY <1>15, <2>5 DEF Recover, StageOK, ProgressOK, RunTyped, Current
  <2>9. EffectsOK'
    BY <1>15, <2>5 DEF Recover, StageOK, EffectsOK, EffectsLead, CreatedOnce, IsPublished,
       RunTyped, StateTyped
  <2>10. AttemptsOK' /\ SpentOK'
    BY <1>15, <2>1, <2>3 DEF Recover, AttemptsOK, SpentOK, AttemptsValid
  <2>11. EvidenceOK'
    <3>1. RecordTellsEvidence'
      BY <2>1 DEF EvidenceOK, RecordTellsEvidence
    <3>2. \A n \in Ids : evidence[n].recovery.retryable => n = 1
      BY DEF EvidenceOK
    <3>3. CASE pc' = "interrupt"
      BY <1>15, <2>1, <2>3, <3>1, <3>2, <3>3 DEF Recover, EvidenceOK
    <3>4. CASE pc' = "finish_attempt"
      BY <1>15, <2>1, <2>3, <3>1, <3>2, <3>4 DEF Recover, Acceptable, EvidenceOK
    <3>5. CASE pc' = "write_ruling"
      BY <1>15, <2>1, <2>2, <2>3, <3>1, <3>2, <3>5 DEF Recover, EvidenceOK
    <3>6. CASE pc' \in {"accept", "end"}
      BY <1>15, <2>1, <2>3, <3>1, <3>2, <3>6 DEF Recover, EvidenceOK
    <3>. QED BY <2>3, <3>3, <3>4, <3>5, <3>6
  <2>12. PublishedOK'
    BY <1>15, PublicationsKept DEF Recover, RunTyped, StageOK
  <2>. QED BY <2>5, <2>6, <2>7, <2>8, <2>9, <2>10, <2>11, <2>12
<1>. QED BY <1>1, <1>2, <1>3, <1>4, <1>5, <1>6, <1>7, <1>8, <1>9, <1>10, <1>11, <1>12, <1>13,
      <1>14, <1>15 DEF AttemptStep

LEMMA PublishKeeps ==
  ASSUME IInv, PublishStep
  PROVE  IInv'
<1>. USE ImplementationConstants, Stops
  DEF Goto, Record, Fault, NoFault, Prepare, Confirm, durable, world, local, bounds, HasWorktree,
      ClaimSteps, WorktreeSteps, OpenSteps, RulingSteps, PublishSteps, IInv
<1>1. ASSUME Verify PROVE IInv'
  <2>1. /\ run'.attempts = run.attempts /\ run'.published = run.published
        /\ run'.checkpoint \in {run.checkpoint, "change_committed"}
        /\ run'.scope \in {run.scope, "candidate"}
        /\ run'.checkpoint # run.checkpoint => run.checkpoint = "worktree_ready"
        /\ run'.last \in {run.last, "run.attention_required", "candidate.change_committed"}
        /\ run'.checkpoint # run.checkpoint => run'.last = "candidate.change_committed"
        /\ Current' = Current /\ \A w : IsPublished(w)' <=> IsPublished(w)
    BY <1>1 DEF Verify, RunTyped, Current, IsPublished
  <2>2. /\ Current.status = "completed" /\ run.attempts # <<>>
        /\ run.checkpoint \in {"worktree_ready", "change_committed"}
    BY <1>1, LastAttempt DEF Verify, AttemptsOK, StageOK, RunTyped, Current
  <2>3. RunTyped(run')
    BY <1>1 DEF Verify, RunTyped, Kinds
  <2>4. StateTyped'
    BY <1>1, Queues DEF Verify, StateTyped, Steps
  <2>5. StageOK'
    BY <1>1, <2>3 DEF Verify, StageOK, ProgressOK, RunTyped
  <2>6. ProgressOK'
    BY <2>1, <2>2 DEF ProgressOK
  <2>7. EffectsOK'
    BY <1>1, <2>1, <2>3 DEF Verify, StageOK, EffectsOK, EffectsLead, CreatedOnce, RunTyped,
       StateTyped
  <2>8. AttemptsOK' /\ SpentOK' /\ EvidenceOK'
    BY <1>1, AttemptsKept DEF Verify, RunTyped
  <2>9. PublishedOK'
    BY <1>1, PublicationsKept DEF Verify, RunTyped, StageOK
  <2>. QED BY <2>3, <2>4, <2>5, <2>6, <2>7, <2>8, <2>9
<1>2. ASSUME ObserveBranch PROVE IInv'
  <2>1. RunTyped(run')
    BY <1>2 DEF ObserveBranch, RunTyped, Kinds
  <2>2. StateTyped'
    BY <1>2, Queues DEF ObserveBranch, StateTyped, Steps
  <2>3. StageOK'
    BY <1>2, <2>1 DEF ObserveBranch, StageOK, ProgressOK, RunTyped
  <2>4. ProgressOK'
    BY <1>2, <2>1 DEF ObserveBranch, StageOK, ProgressOK, RunTyped, Current
  <2>5. EffectsOK'
    BY <1>2, <2>1 DEF ObserveBranch, StageOK, EffectsOK, EffectsLead, CreatedOnce,
       IsPublished, RunTyped, StateTyped
  <2>6. AttemptsOK' /\ SpentOK' /\ EvidenceOK'
    BY <1>2, AttemptsKept DEF ObserveBranch, RunTyped
  <2>7. PublishedOK'
    BY <1>2, PublicationsKept DEF ObserveBranch, RunTyped, StageOK
  <2>. QED BY <2>1, <2>2, <2>3, <2>4, <2>5, <2>6, <2>7
<1>3. ASSUME Push PROVE IInv'
  <2>1. RunTyped(run')
    BY <1>3 DEF Push, RunTyped, Kinds
  <2>2. StateTyped'
    BY <1>3, Queues DEF Push, StateTyped, Steps
  <2>3. StageOK'
    BY <1>3, <2>1 DEF Push, StageOK, ProgressOK, RunTyped
  <2>4. ProgressOK'
    BY <1>3, <2>1 DEF Push, StageOK, ProgressOK, RunTyped, Current
  <2>5. EffectsOK'
    BY <1>3, <2>1 DEF Push, StageOK, EffectsOK, EffectsLead, CreatedOnce, IsPublished,
       RunTyped, StateTyped
  <2>6. AttemptsOK' /\ SpentOK' /\ EvidenceOK'
    BY <1>3, AttemptsKept DEF Push, RunTyped
  <2>7. PublishedOK'
    BY <1>3, PublicationsKept DEF Push, RunTyped, StageOK
  <2>. QED BY <2>1, <2>2, <2>3, <2>4, <2>5, <2>6, <2>7
<1>4. ASSUME ConfirmPush PROVE IInv'
  <2>1. RunTyped(run')
    BY <1>4 DEF ConfirmPush, RunTyped, Kinds
  <2>2. StateTyped'
    BY <1>4, Queues DEF ConfirmPush, StateTyped, Steps
  <2>3. StageOK'
    BY <1>4, <2>1 DEF ConfirmPush, StageOK, ProgressOK, RunTyped
  <2>4. ProgressOK'
    BY <1>4, <2>1 DEF ConfirmPush, StageOK, ProgressOK, RunTyped, Current
  <2>5. EffectsOK'
    BY <1>4, <2>1 DEF ConfirmPush, StageOK, EffectsOK, EffectsLead, CreatedOnce, IsPublished,
       RunTyped, StateTyped
  <2>6. AttemptsOK' /\ SpentOK' /\ EvidenceOK'
    BY <1>4, AttemptsKept DEF ConfirmPush, RunTyped
  <2>7. PublishedOK'
    BY <1>4, PublicationsKept DEF ConfirmPush, RunTyped, StageOK
  <2>. QED BY <2>1, <2>2, <2>3, <2>4, <2>5, <2>6, <2>7
<1>5. ASSUME AnnounceBranch PROVE IInv'
  <2>1. \/ IsPublished("branch") /\ UNCHANGED run
        \/ ~IsPublished("branch") /\ Publish("branch") /\ run.checkpoint = "change_committed"
    BY <1>5 DEF AnnounceBranch, StageOK
  <2>2. pc' = "pr" /\ UNCHANGED <<effect, evidence, world, unit, local, bounds>>
    BY <1>5, Publishes DEF AnnounceBranch, Publish
  <2>3. RunTyped(run')
    BY <2>1, Publishes
  <2>4. StateTyped'
    BY <2>2 DEF StateTyped, Steps
  <2>5. StageOK'
    BY <1>5, <2>1, <2>2, Publishes DEF AnnounceBranch, StageOK
  <2>6. ProgressOK'
    BY <1>5, <2>1, <2>2, Publishes DEF ProgressOK, Current
  <2>7. EffectsOK'
    <3>1. \A w : IsPublished(w)' => IsPublished(w) \/ w = "branch"
      <4>1. CASE UNCHANGED run
        BY <4>1 DEF IsPublished
      <4>. QED BY <2>1, <4>1, Publishes
    <3>2. run'.checkpoint = run.checkpoint
      BY <2>1, Publishes
    <3>. QED BY <1>5, <2>2, <3>1, <3>2 DEF AnnounceBranch, EffectsOK, EffectsLead, CreatedOnce
  <2>8. AttemptsOK' /\ SpentOK' /\ EvidenceOK'
    BY <2>1, <2>2, Publishes, AttemptsKept
  <2>9. PublishedOK'
    BY <2>1, Publishes, PublicationsKept
  <2>. QED BY <2>3, <2>4, <2>5, <2>6, <2>7, <2>8, <2>9
<1>6. ASSUME ObservePullRequest PROVE IInv'
  <2>1. /\ run'.attempts = run.attempts /\ run'.published = run.published
        /\ Current' = Current /\ \A w : IsPublished(w)' <=> IsPublished(w)
    BY <1>6 DEF ObservePullRequest, RunTyped, Current, IsPublished
  <2>2. RunTyped(run')
    BY <1>6 DEF ObservePullRequest, RunTyped, Kinds
  <2>3. StateTyped'
    BY <1>6, Queues DEF ObservePullRequest, StateTyped, Steps
  <2>4. StageOK'
    BY <1>6, <2>2 DEF ObservePullRequest, StageOK, ProgressOK, RunTyped
  <2>5. ProgressOK'
    BY <1>6, <2>1, <2>2 DEF ObservePullRequest, StageOK, ProgressOK, AttemptsOK, RunTyped
  <2>6. EffectsOK'
    BY <1>6, <2>1, <2>2 DEF ObservePullRequest, NoPullRequest, StageOK, EffectsOK,
       EffectsLead, CreatedOnce, RunTyped, StateTyped
  <2>7. AttemptsOK' /\ SpentOK' /\ EvidenceOK'
    BY <1>6, AttemptsKept DEF ObservePullRequest, RunTyped
  <2>8. PublishedOK'
    BY <1>6, PublicationsKept DEF ObservePullRequest, RunTyped, StageOK
  <2>. QED BY <2>2, <2>3, <2>4, <2>5, <2>6, <2>7, <2>8
<1>7. ASSUME CreatePullRequest PROVE IInv'
  <2>1. RunTyped(run')
    BY <1>7 DEF CreatePullRequest, RunTyped, Kinds
  <2>2. StateTyped'
    BY <1>7, Queues DEF CreatePullRequest, StateTyped, EffectsOK, Steps
  <2>3. StageOK'
    BY <1>7, <2>1 DEF CreatePullRequest, StageOK, ProgressOK, RunTyped
  <2>4. ProgressOK'
    BY <1>7, <2>1 DEF CreatePullRequest, StageOK, ProgressOK, RunTyped, Current
  <2>5. EffectsOK'
    BY <1>7, <2>1 DEF CreatePullRequest, StageOK, EffectsOK, EffectsLead, CreatedOnce,
       IsPublished, RunTyped, StateTyped
  <2>6. AttemptsOK' /\ SpentOK' /\ EvidenceOK'
    BY <1>7, AttemptsKept DEF CreatePullRequest, RunTyped
  <2>7. PublishedOK'
    BY <1>7, PublicationsKept DEF CreatePullRequest, RunTyped, StageOK
  <2>. QED BY <2>1, <2>2, <2>3, <2>4, <2>5, <2>6, <2>7
<1>8. ASSUME JudgePullRequest PROVE IInv'
  <2>1. RunTyped(run')
    BY <1>8 DEF JudgePullRequest, RunTyped, Kinds
  <2>2. StateTyped'
    BY <1>8, Queues DEF JudgePullRequest, StateTyped, Steps
  <2>3. StageOK'
    BY <1>8, <2>1 DEF JudgePullRequest, StageOK, ProgressOK, RunTyped
  <2>4. ProgressOK'
    BY <1>8, <2>1 DEF JudgePullRequest, StageOK, ProgressOK, RunTyped, Current
  <2>5. EffectsOK'
    BY <1>8, <2>1 DEF JudgePullRequest, StageOK, EffectsOK, EffectsLead, CreatedOnce,
       IsPublished, RunTyped, StateTyped
  <2>6. AttemptsOK' /\ SpentOK' /\ EvidenceOK'
    BY <1>8, AttemptsKept DEF JudgePullRequest, RunTyped
  <2>7. PublishedOK'
    BY <1>8, PublicationsKept DEF JudgePullRequest, RunTyped, StageOK
  <2>. QED BY <2>1, <2>2, <2>3, <2>4, <2>5, <2>6, <2>7
<1>9. ASSUME ConfirmPullRequest PROVE IInv'
  <2>1. RunTyped(run')
    BY <1>9 DEF ConfirmPullRequest, RunTyped, Kinds
  <2>2. StateTyped'
    BY <1>9, Queues DEF ConfirmPullRequest, StateTyped, Steps
  <2>3. StageOK'
    BY <1>9, <2>1 DEF ConfirmPullRequest, StageOK, ProgressOK, RunTyped
  <2>4. ProgressOK'
    BY <1>9, <2>1 DEF ConfirmPullRequest, StageOK, ProgressOK, RunTyped, Current
  <2>5. EffectsOK'
    BY <1>9, <2>1 DEF ConfirmPullRequest, StageOK, EffectsOK, EffectsLead, CreatedOnce,
       IsPublished, RunTyped, StateTyped
  <2>6. AttemptsOK' /\ SpentOK' /\ EvidenceOK'
    BY <1>9, AttemptsKept DEF ConfirmPullRequest, RunTyped
  <2>7. PublishedOK'
    BY <1>9, PublicationsKept DEF ConfirmPullRequest, RunTyped, StageOK
  <2>. QED BY <2>1, <2>2, <2>3, <2>4, <2>5, <2>6, <2>7
<1>10. ASSUME AnnouncePullRequest PROVE IInv'
  <2>1. \/ IsPublished("pr") /\ UNCHANGED run
        \/ ~IsPublished("pr") /\ Publish("pr") /\ run.checkpoint = "change_committed"
    BY <1>10 DEF AnnouncePullRequest, StageOK
  <2>2. pc' = "ready" /\ UNCHANGED <<effect, evidence, world, unit, local, bounds>>
    BY <1>10, Publishes DEF AnnouncePullRequest, Publish
  <2>3. RunTyped(run')
    BY <2>1, Publishes
  <2>4. StateTyped'
    BY <2>2 DEF StateTyped, Steps
  <2>5. StageOK'
    BY <1>10, <2>1, <2>2, Publishes DEF AnnouncePullRequest, StageOK
  <2>6. ProgressOK'
    BY <1>10, <2>1, <2>2, Publishes DEF ProgressOK, Current
  <2>7. EffectsOK'
    <3>1. \A w : IsPublished(w)' => IsPublished(w) \/ w = "pr"
      <4>1. CASE UNCHANGED run
        BY <4>1 DEF IsPublished
      <4>. QED BY <2>1, <4>1, Publishes
    <3>2. run'.checkpoint = run.checkpoint
      BY <2>1, Publishes
    <3>. QED BY <1>10, <2>2, <3>1, <3>2 DEF AnnouncePullRequest, EffectsOK, EffectsLead, CreatedOnce
  <2>8. AttemptsOK' /\ SpentOK' /\ EvidenceOK'
    BY <2>1, <2>2, Publishes, AttemptsKept
  <2>9. PublishedOK'
    BY <2>1, Publishes, PublicationsKept
  <2>. QED BY <2>3, <2>4, <2>5, <2>6, <2>7, <2>8, <2>9
<1>11. ASSUME Ready PROVE IInv'
  <2>1. /\ run'.attempts = run.attempts /\ run'.published = run.published
        /\ Current' = Current /\ \A w : IsPublished(w)' <=> IsPublished(w)
    BY <1>11 DEF Ready, RunTyped, Current, IsPublished
  <2>2. RunTyped(run')
    BY <1>11 DEF Ready, RunTyped, Kinds
  <2>3. StateTyped'
    BY <1>11, Queues DEF Ready, StateTyped, Steps
  <2>4. StageOK'
    BY <1>11, <2>2 DEF Ready, StageOK, ProgressOK, RunTyped
  <2>5. ProgressOK'
    BY <1>11, <2>1, <2>2 DEF Ready, StageOK, ProgressOK, AttemptsOK, RunTyped
  <2>6. EffectsOK'
    BY <1>11, <2>1, <2>2 DEF Ready, StageOK, EffectsOK, EffectsLead, CreatedOnce, RunTyped,
       StateTyped
  <2>7. AttemptsOK' /\ SpentOK' /\ EvidenceOK'
    BY <1>11, AttemptsKept DEF Ready, RunTyped
  <2>8. PublishedOK'
    BY <1>11, PublicationsKept DEF Ready, RunTyped, StageOK
  <2>. QED BY <2>2, <2>3, <2>4, <2>5, <2>6, <2>7, <2>8
<1>. QED BY <1>1, <1>2, <1>3, <1>4, <1>5, <1>6, <1>7, <1>8, <1>9, <1>10, <1>11 DEF PublishStep

LEMMA CommandKeeps ==
  ASSUME IInv, End \/ NoteUnit \/ AlertSignal \/ AlertWorker \/ RecordTerminal \/ Resume
               \/ UnitUnknown \/ Crash \/ Signal \/ UnitDies \/ OthersAct
  PROVE  IInv'
<1>. USE ImplementationConstants, Stops
  DEF Goto, Record, Fault, NoFault, Prepare, Confirm, durable, world, local, bounds, HasWorktree,
      ClaimSteps, WorktreeSteps, OpenSteps, RulingSteps, PublishSteps, IInv
<1>1. ASSUME End PROVE IInv'
  <2>1. /\ todo' \in Seq(Phases) /\ hand' \in Rulings /\ pc' = "idle" /\ again' = FALSE
        /\ unit' \in {unit, "ending"} /\ UNCHANGED <<effect, evidence, world, bounds>>
    BY <1>1, Queues, NoRulingTyped DEF End
  <2>2. again' \in BOOLEAN /\ unit' \in {"working", "ending", "gone"}
    BY <2>1 DEF StateTyped
  <2>3. RunTyped(run')
    BY <1>1 DEF End, RunTyped, Kinds
  <2>4. StateTyped'
    BY <2>1, <2>2 DEF StateTyped, Steps
  <2>5. StageOK'
    BY <1>1, <2>3 DEF End, StageOK, ProgressOK, RunTyped
  <2>6. ProgressOK'
    BY <1>1, <2>3 DEF End, StageOK, ProgressOK, RunTyped, Current
  <2>7. EffectsOK'
    BY <1>1, <2>3 DEF End, StageOK, EffectsOK, EffectsLead, CreatedOnce, IsPublished,
       RunTyped, StateTyped
  <2>8. AttemptsOK' /\ SpentOK' /\ EvidenceOK'
    BY <1>1, AttemptsKept DEF End, RunTyped
  <2>9. PublishedOK'
    BY <1>1, PublicationsKept DEF End, RunTyped, StageOK
  <2>. QED BY <2>3, <2>4, <2>5, <2>6, <2>7, <2>8, <2>9
<1>2. ASSUME NoteUnit PROVE IInv'
  <2>1. /\ run'.checkpoint = run.checkpoint /\ run'.published = run.published /\ pc' = "end"
        /\ UNCHANGED <<effect, evidence, world>>
    BY <1>2 DEF NoteUnit, RunTyped
  <2>2. RunTyped(run')
    BY <1>2 DEF NoteUnit, RunTyped, Kinds
  <2>3. StateTyped'
    BY <1>2, Queues DEF NoteUnit, StateTyped, Steps
  <2>4. StageOK'
    BY <1>2, <2>2 DEF NoteUnit, StageOK, ProgressOK, RunTyped
  <2>5. ProgressOK'
    BY <1>2, <2>2 DEF NoteUnit, StageOK, ProgressOK, RunTyped, Current
  <2>6. EffectsOK'
    BY <2>1 DEF EffectsOK, EffectsLead, CreatedOnce, IsPublished
  <2>7. AttemptsOK' /\ SpentOK' /\ EvidenceOK'
    BY <1>2, AttemptsKept DEF NoteUnit, RunTyped
  <2>8. PublishedOK'
    BY <1>2, PublicationsKept DEF NoteUnit, RunTyped, StageOK
  <2>. QED BY <2>2, <2>3, <2>4, <2>5, <2>6, <2>7, <2>8
<1>3. ASSUME AlertSignal PROVE IInv'
  <2>1. RunTyped(run')
    BY <1>3 DEF AlertSignal, RunTyped, Kinds
  <2>2. StateTyped'
    BY <1>3, Queues DEF AlertSignal, StateTyped, Steps
  <2>3. StageOK'
    BY <1>3, <2>1 DEF AlertSignal, StageOK, ProgressOK, RunTyped
  <2>4. ProgressOK'
    BY <1>3, <2>1 DEF AlertSignal, StageOK, ProgressOK, RunTyped, Current
  <2>5. EffectsOK'
    BY <1>3, <2>1 DEF AlertSignal, StageOK, EffectsOK, EffectsLead, CreatedOnce, IsPublished,
       RunTyped, StateTyped
  <2>6. AttemptsOK' /\ SpentOK' /\ EvidenceOK'
    BY <1>3, AttemptsKept DEF AlertSignal, RunTyped
  <2>7. PublishedOK'
    BY <1>3, PublicationsKept DEF AlertSignal, RunTyped, StageOK
  <2>. QED BY <2>1, <2>2, <2>3, <2>4, <2>5, <2>6, <2>7
<1>4. ASSUME AlertWorker PROVE IInv'
  <2>1. RunTyped(run')
    BY <1>4 DEF AlertWorker, RunTyped, Kinds
  <2>2. StateTyped'
    BY <1>4, Queues DEF AlertWorker, StateTyped, Steps
  <2>3. StageOK'
    BY <1>4, <2>1 DEF AlertWorker, StageOK, ProgressOK, RunTyped
  <2>4. ProgressOK'
    BY <1>4, <2>1 DEF AlertWorker, StageOK, ProgressOK, RunTyped, Current
  <2>5. EffectsOK'
    BY <1>4, <2>1 DEF AlertWorker, StageOK, EffectsOK, EffectsLead, CreatedOnce, IsPublished,
       RunTyped, StateTyped
  <2>6. AttemptsOK' /\ SpentOK' /\ EvidenceOK'
    BY <1>4, AttemptsKept DEF AlertWorker, RunTyped
  <2>7. PublishedOK'
    BY <1>4, PublicationsKept DEF AlertWorker, RunTyped, StageOK
  <2>. QED BY <2>1, <2>2, <2>3, <2>4, <2>5, <2>6, <2>7
<1>5. ASSUME RecordTerminal PROVE IInv'
  <2>1. RunTyped(run')
    BY <1>5 DEF RecordTerminal, RunTyped, Kinds
  <2>2. StateTyped'
    BY <1>5, Queues DEF RecordTerminal, StateTyped, Steps
  <2>3. StageOK'
    BY <1>5, <2>1 DEF RecordTerminal, StageOK, ProgressOK, RunTyped
  <2>4. ProgressOK'
    BY <1>5, <2>1 DEF RecordTerminal, StageOK, ProgressOK, RunTyped, Current
  <2>5. EffectsOK'
    BY <1>5, <2>1 DEF RecordTerminal, StageOK, EffectsOK, EffectsLead, CreatedOnce,
       IsPublished, RunTyped, StateTyped
  <2>6. AttemptsOK' /\ SpentOK' /\ EvidenceOK'
    BY <1>5, AttemptsKept DEF RecordTerminal, RunTyped
  <2>7. PublishedOK'
    BY <1>5, PublicationsKept DEF RecordTerminal, RunTyped, StageOK
  <2>. QED BY <2>1, <2>2, <2>3, <2>4, <2>5, <2>6, <2>7
<1>6. ASSUME Resume PROVE IInv'
  <2>1. /\ UNCHANGED <<run, effect, evidence, world, unit, hand, again, bounds>>
        /\ pc' = Branch[2] /\ todo' = Branch[3] /\ pc' # "idle"
    BY <1>6 DEF Resume
  <2>2. todo' \in Seq(Phases) /\ pc' \in Steps
    BY <2>1, Rows, Queues DEF Steps
  <2>3. RunTyped(run')
    BY <2>1
  <2>4. StateTyped'
    BY <2>1, <2>2 DEF StateTyped
  <2>5. StageOK'
    BY <2>1, Rows DEF StageOK, ProgressOK, ClaimReady, AttemptReady, CandidateReady
  <2>6. ProgressOK'
    BY <2>1 DEF ProgressOK, Current
  <2>7. EffectsOK'
    BY <2>1, Rows DEF EffectsOK, EffectsLead, CreatedOnce, IsPublished
  <2>8. AttemptsOK' /\ SpentOK' /\ EvidenceOK'
    BY <2>1, Rows, AttemptsKept
  <2>9. PublishedOK'
    BY <2>1, PublicationsKept
  <2>. QED BY <2>3, <2>4, <2>5, <2>6, <2>7, <2>8, <2>9
<1>7. ASSUME UnitUnknown PROVE IInv'
  <2>1. RunTyped(run')
    BY <1>7 DEF UnitUnknown, RunTyped, Kinds
  <2>2. StateTyped'
    BY <1>7, Queues DEF UnitUnknown, StateTyped, Steps
  <2>3. StageOK'
    BY <1>7, <2>1 DEF UnitUnknown, StageOK, ProgressOK, RunTyped
  <2>4. ProgressOK'
    BY <1>7, <2>1 DEF UnitUnknown, StageOK, ProgressOK, RunTyped, Current
  <2>5. EffectsOK'
    BY <1>7, <2>1 DEF UnitUnknown, StageOK, EffectsOK, EffectsLead, CreatedOnce, IsPublished,
       RunTyped, StateTyped
  <2>6. AttemptsOK' /\ SpentOK' /\ EvidenceOK'
    BY <1>7, AttemptsKept DEF UnitUnknown, RunTyped
  <2>7. PublishedOK'
    BY <1>7, PublicationsKept DEF UnitUnknown, RunTyped, StageOK
  <2>. QED BY <2>1, <2>2, <2>3, <2>4, <2>5, <2>6, <2>7
<1>8. ASSUME Crash PROVE IInv'
  <2>1. todo' = <<>> /\ pc' = "idle" /\ hand' = NoRuling /\ again' = FALSE
        /\ UNCHANGED <<effect, evidence, world, faults>>
    BY <1>8 DEF Crash, CutOff
  <2>2. unit' \in {unit, "gone"} /\ crashes' \in 0 .. MaxCrashes
    BY <1>8 DEF Crash, CutOff, StateTyped
  <2>3. todo' \in Seq(Phases) /\ hand' \in Rulings /\ again' \in BOOLEAN /\ pc' \in Steps
    BY <2>1, Queues, NoRulingTyped DEF Steps
  <2>4. RunTyped(run')
    BY <1>8 DEF Crash, CutOff, RunTyped, Kinds
  <2>5. StateTyped'
    BY <2>1, <2>2, <2>3 DEF StateTyped
  <2>6. StageOK'
    BY <1>8, <2>4 DEF Crash, CutOff, StageOK, ProgressOK, RunTyped
  <2>7. ProgressOK'
    BY <1>8, <2>4 DEF Crash, CutOff, StageOK, ProgressOK, RunTyped, Current
  <2>8. EffectsOK'
    BY <1>8, <2>4 DEF Crash, CutOff, StageOK, EffectsOK, EffectsLead, CreatedOnce,
       IsPublished, RunTyped, StateTyped
  <2>9. AttemptsOK' /\ SpentOK' /\ EvidenceOK'
    BY <1>8, AttemptsKept DEF Crash, CutOff, RunTyped
  <2>10. PublishedOK'
    BY <1>8, PublicationsKept DEF Crash, CutOff, RunTyped, StageOK
  <2>. QED BY <2>4, <2>5, <2>6, <2>7, <2>8, <2>9, <2>10
<1>9. ASSUME Signal PROVE IInv'
  <2>1. todo' = <<>> /\ pc' = "idle" /\ hand' = NoRuling /\ again' = FALSE
        /\ UNCHANGED <<effect, evidence, world, faults>>
    BY <1>9 DEF Signal, CutOff
  <2>2. unit' \in {unit, "gone"} /\ crashes' \in 0 .. MaxCrashes
    BY <1>9 DEF Signal, CutOff, StateTyped
  <2>3. todo' \in Seq(Phases) /\ hand' \in Rulings /\ again' \in BOOLEAN /\ pc' \in Steps
    BY <2>1, Queues, NoRulingTyped DEF Steps
  <2>4. RunTyped(run')
    BY <1>9 DEF Signal, CutOff, RunTyped, Kinds
  <2>5. StateTyped'
    BY <2>1, <2>2, <2>3 DEF StateTyped
  <2>6. StageOK'
    BY <1>9, <2>4 DEF Signal, CutOff, StageOK, ProgressOK, RunTyped
  <2>7. ProgressOK'
    BY <1>9, <2>4 DEF Signal, CutOff, StageOK, ProgressOK, RunTyped, Current
  <2>8. EffectsOK'
    BY <1>9, <2>4 DEF Signal, CutOff, StageOK, EffectsOK, EffectsLead, CreatedOnce,
       IsPublished, RunTyped, StateTyped
  <2>9. AttemptsOK' /\ SpentOK' /\ EvidenceOK'
    BY <1>9, AttemptsKept DEF Signal, CutOff, RunTyped
  <2>10. PublishedOK'
    BY <1>9, PublicationsKept DEF Signal, CutOff, RunTyped, StageOK
  <2>. QED BY <2>4, <2>5, <2>6, <2>7, <2>8, <2>9, <2>10
<1>10. ASSUME UnitDies PROVE IInv'
  <2>1. RunTyped(run')
    BY <1>10 DEF UnitDies, RunTyped, Kinds
  <2>2. StateTyped'
    BY <1>10, Queues DEF UnitDies, StateTyped, Steps
  <2>3. StageOK'
    BY <1>10, <2>1 DEF UnitDies, StageOK, ProgressOK, RunTyped
  <2>4. ProgressOK'
    BY <1>10, <2>1 DEF UnitDies, StageOK, ProgressOK, RunTyped, Current
  <2>5. EffectsOK'
    BY <1>10, <2>1 DEF UnitDies, StageOK, EffectsOK, EffectsLead, CreatedOnce, IsPublished,
       RunTyped, StateTyped
  <2>6. AttemptsOK' /\ SpentOK' /\ EvidenceOK'
    BY <1>10, Undisturbed DEF UnitDies
  <2>7. PublishedOK'
    BY <1>10, PublicationsKept DEF UnitDies, RunTyped, StageOK
  <2>. QED BY <2>1, <2>2, <2>3, <2>4, <2>5, <2>6, <2>7
<1>11. ASSUME OthersAct PROVE IInv'
  <2>1. /\ UNCHANGED <<durable, ran, unit, pc, local, crashes>> /\ faults' \in 0 .. MaxFaults
    BY <1>11 DEF OthersAct, StateTyped
  <2>2. /\ bead' \in {bead, "open", "other"} /\ tree' \in {tree, "dirty"}
        /\ tree = "absent" <=> tree' = "absent"
        /\ remote' \in {remote, "foreign"} /\ target' \in {target, "moved"}
    BY <1>11 DEF OthersAct
  <2>3. prs' = prs \/ prs' = [prs EXCEPT !.foreign = TRUE]
    BY <1>11 DEF OthersAct
  <2>4. prs'.ours = prs.ours /\ prs' \in [ours : Nat, foreign : BOOLEAN]
    BY <2>3 DEF StateTyped
  <2>5. RunTyped(run')
    BY <2>1
  <2>6. StateTyped'
    BY <2>1, <2>2, <2>4 DEF StateTyped
  <2>7. StageOK'
    BY <2>1 DEF StageOK
  <2>8. ProgressOK'
    BY <2>1 DEF ProgressOK, Current
  <2>9. EffectsOK'
    BY <2>1, <2>2, <2>4 DEF EffectsOK, EffectsLead, CreatedOnce, IsPublished
  <2>10. AttemptsOK' /\ SpentOK' /\ EvidenceOK'
    BY <2>1, <2>2, Undisturbed
  <2>11. PublishedOK'
    BY <2>1, PublicationsKept
  <2>. QED BY <2>5, <2>6, <2>7, <2>8, <2>9, <2>10, <2>11
<1>. QED BY <1>1, <1>2, <1>3, <1>4, <1>5, <1>6, <1>7, <1>8, <1>9, <1>10, <1>11

LEMMA StutterKeeps == IInv /\ UNCHANGED vars => IInv'
<1> SUFFICES ASSUME IInv, UNCHANGED vars PROVE IInv'
  OBVIOUS
<1>. USE DEF IInv, vars, durable, world, local, bounds
<1>1. RunTyped(run') /\ StateTyped'
  BY DEF StateTyped
<1>2. StageOK' /\ ProgressOK' /\ EffectsOK'
  BY DEF StageOK, ProgressOK, EffectsOK, EffectsLead, CreatedOnce, IsPublished, HasWorktree,
         Current
<1>3. AttemptsOK' /\ SpentOK' /\ EvidenceOK'
  BY Undisturbed
<1>4. PublishedOK'
  BY PublicationsKept
<1>. QED BY <1>1, <1>2, <1>3, <1>4

LEMMA Initially == Init => IInv
<1> SUFFICES ASSUME Init PROVE IInv
  OBVIOUS
<1>1. RunTyped(run)
  <2>1. <<>> \in Seq(Attempts) /\ <<>> \in Seq({"branch", "pr"})
    BY EmptySeq
  <2>. QED BY <2>1 DEF Init, RunTyped, Kinds
<1>2. run.attempts = <<>> /\ Current = NoAttempt /\ run.published = <<>>
  BY DEF Init, Current, Last
<1>3. DOMAIN run.attempts = {} /\ DOMAIN run.published = {}
  BY <1>2
<1>4. StateTyped
  <2>1. NoEvidence \in EvidenceRecords
    BY NoRulingTyped DEF NoEvidence, EvidenceRecords
  <2>2. evidence \in [Ids -> EvidenceRecords]
    BY <2>1 DEF Init
  <2>3. hand \in Rulings
    BY NoRulingTyped DEF Init
  <2>4. todo \in Seq(Phases)
    <3>1. todo = <<"worktree", "candidate">>
      BY DEF Init
    <3>2. <<"worktree", "candidate">> \in Seq(Phases)
      BY Queues
    <3>. QED BY <3>1, <3>2, Zenon
  <2>5. /\ effect \in [{"claim", "worktree", "push", "pr"} -> {"none", "prepared", "confirmed"}]
        /\ bead = "open" /\ tree = "absent" /\ remote = "absent" /\ target = "base"
        /\ prs \in [ours : Nat, foreign : BOOLEAN] /\ unit = "working" /\ ran = {}
    BY DEF Init
  <2>6. /\ pc = "claim" /\ again = FALSE
        /\ faults \in 0 .. MaxFaults /\ crashes \in 0 .. MaxCrashes
    BY ImplementationConstants DEF Init
  <2>. QED BY <2>2, <2>3, <2>4, <2>5, <2>6 DEF StateTyped, EvidenceRecords, Steps
<1>5. StageOK /\ ProgressOK
  BY <1>2 DEF Init, StageOK, ProgressOK, ClaimSteps, WorktreeSteps, OpenSteps, PublishSteps
<1>6. EffectsOK
  BY <1>3 DEF Init, EffectsOK, EffectsLead, CreatedOnce, IsPublished, HasWorktree, ClaimSteps,
          WorktreeSteps
<1>7. AttemptsOK /\ SpentOK
  BY <1>2, <1>3 DEF Init, AttemptsOK, AttemptsValid, SpentOK, OpenSteps, NoAttempt, Attempt
<1>8. EvidenceOK
  BY <1>2, <1>3, NoRulingTyped
  DEF Init, EvidenceOK, RecordTellsEvidence, NoAttempt, Attempt, NoEvidence
<1>9. PublishedOK
  BY <1>2, <1>3 DEF PublishedOK, PublicationsValid
<1>. QED BY <1>1, <1>4, <1>5, <1>6, <1>7, <1>8, <1>9 DEF IInv

LEMMA Inductive == Spec => []IInv
<1>1. IInv /\ [Next]_vars => IInv'
  BY ClaimKeeps, WorktreeKeeps, AttemptKeeps, PublishKeeps, CommandKeeps, StutterKeeps
  DEF Next, Step
<1>. QED BY <1>1, Initially, PTL DEF Spec

\* Every variable holds what start.py and candidate.py can put into it; in particular there
\* are never more than two implementation attempts.
THEOREM TypeCorrect == Spec => []TypeOK
<1>1. IInv => TypeOK
  BY WellTyped DEF IInv
<1>. QED BY <1>1, Inductive, PTL

\* prepare_effect comes before the claim of the Bead, git worktree add, the push and gh pr
\* create, and confirm_effect before the records that claim them; the pull request is created
\* once, however often the command dies between the creation and its confirmation.
THEOREM EffectsCovered == Spec => []EffectsCoverTheWorld
<1>1. IInv => EffectsCoverTheWorld
  BY DEF IInv, EffectsOK, EffectsCoverTheWorld
<1>. QED BY <1>1, Inductive, PTL

\* An implementation.attempt_completed or attempt_interrupted record says what the sealed
\* directory of that attempt says.
THEOREM RecordsTrue == Spec => []RecordTellsEvidence
<1>1. IInv => RecordTellsEvidence
  BY DEF IInv, EvidenceOK
<1>. QED BY <1>1, Inductive, PTL

\* resume_preflight.py accepts every history of attempts and publications that the program
\* writes.
THEOREM PreflightPasses == Spec => []PreflightAccepts
<1>1. IInv => PreflightAccepts
  BY DEF IInv, AttemptsOK, PublishedOK, PreflightAccepts, PreflightValid
<1>. QED BY <1>1, Inductive, PTL

\* The agent is started once in an attempt, in the second one only behind a first one that is
\* sealed as one that may be repeated, and never when its commit is published.
THEOREM AgentOncePerAttempt == Spec => AttemptsSpentOnce
<1>1. IInv => (pc = "agent" =>
                 /\ Current.id \notin ran /\ remote # "candidate"
                 /\ Current.id = 2 => evidence[1].sealed /\ evidence[1].recovery.retryable)
  <2> SUFFICES ASSUME IInv, pc = "agent"
               PROVE  /\ Current.id \notin ran /\ remote # "candidate"
                      /\ Current.id = 2 => evidence[1].sealed /\ evidence[1].recovery.retryable
    OBVIOUS
  <2>1. run.checkpoint = "worktree_ready"
    BY DEF IInv, StageOK, OpenSteps
  <2>. QED BY <2>1 DEF IInv, SpentOK, EffectsOK
<1>2. IInv /\ [Next]_vars =>
        [pc = "agent" /\ pc' = "agent_works" =>
            /\ Current.id \notin ran /\ remote # "candidate"
            /\ Current.id = 2 => evidence[1].sealed /\ evidence[1].recovery.retryable]_vars
  BY <1>1
<1>. QED BY <1>2, Inductive, PTL DEF Spec, AttemptsSpentOnce

LEMMA ForeignKept == Next => /\ remote = "foreign" => remote' = "foreign"
                             /\ bead = "other" => bead' # "ours"
<1> SUFFICES ASSUME Next
             PROVE  /\ remote = "foreign" => remote' = "foreign"
                    /\ bead = "other" => bead' # "ours"
  OBVIOUS
<1>. USE DEF world, durable
<1>1. CASE TakeBead
  BY <1>1 DEF TakeBead
<1>2. CASE Push
  BY <1>2 DEF Push
<1>3. CASE OthersAct
  BY <1>3 DEF OthersAct
<1>4. CASE ClaimStep /\ ~TakeBead
  BY <1>4 DEF ClaimStep, Claim, ShowBead, ShowAgain, ConfirmClaim, RecordClaim
<1>5. CASE WorktreeStep
  BY <1>5 DEF WorktreeStep, Worktree, BeginAdd, EndAdd, ConfirmWorktree, RecordWorktree
<1>6. CASE AttemptStep
  BY <1>6 DEF AttemptStep, Candidate, StartAttempt, WritePrompt, StartAgent, AgentReports,
     AgentIsSilent, AgentFails, Accept, SealReport, FinishAttempt, WriteRuling, SealRuling,
     InterruptAttempt, AfterInterruption, Recover
<1>7. CASE PublishStep /\ ~Push
  BY <1>7 DEF PublishStep, Verify, ObserveBranch, ConfirmPush, AnnounceBranch,
     ObservePullRequest, CreatePullRequest, JudgePullRequest, ConfirmPullRequest,
     AnnouncePullRequest, Ready
<1>8. CASE End \/ NoteUnit \/ AlertSignal \/ AlertWorker
  BY <1>8 DEF End, NoteUnit, AlertSignal, AlertWorker
<1>9. CASE RecordTerminal \/ Resume \/ UnitUnknown \/ Crash \/ Signal \/ UnitDies
  BY <1>9 DEF RecordTerminal, Resume, UnitUnknown, Crash, Signal, CutOff, UnitDies
<1>. QED BY <1>1, <1>2, <1>3, <1>4, <1>5, <1>6, <1>7, <1>8, <1>9 DEF Next, Step

\* bd update --claim takes no Bead from someone else, and git push --force-with-lease no
\* branch head.
THEOREM OthersUndisturbed == Spec => OthersKept
<1>1. [Next]_vars => [/\ remote = "foreign" => remote' = "foreign"
                      /\ bead = "other" => bead' # "ours"]_vars
  BY ForeignKept
<1>. QED BY <1>1, PTL DEF Spec, OthersKept
=============================================================================
