------------------------- MODULE EmailSinks_proofs -------------------------
(***************************************************************************)
(* Proofs about the two mailing sinks, for any number of alerts and of     *)
(* crashes: the type invariant, that only a crash repeats a mail, and that *)
(* a mail that fails silences no other alert.                              *)
(*                                                                         *)
(* Neither property is inductive: both are about committed rows, and what  *)
(* becomes committed was mailed by a call that was still running.  SinksInv*)
(* says how far that call has come.                                        *)
(***************************************************************************)
EXTENDS EmailSinks, SequenceTheorems, TLAPS

USE SinksAssumption

\* The checkpoint and the offset log of an idle sink agree, and a running call
\* is at a row of its batch or just past it.
CallInBatch(s) ==
  /\ phase[s] = "idle" => committed[s] = batchEnd[s]
  /\ phase[s] = "running" => committed[s] < next[s] /\ next[s] <= batchEnd[s] + 1

\* The rows the present run over the batch, or an earlier batch, has passed.
Passed(s, i) == i <= committed[s] \/ (phase[s] = "running" /\ i < next[s])

\* Every crash accounts for one mail of a row, and the run that passed it for
\* one more.
MailsAccounted(s) ==
  \A i \in 1 .. MaxAlerts :
    /\ sent[s][i] <= 1 + crashes[s]
    /\ ~Passed(s, i) => sent[s][i] <= crashes[s]

\* No row was passed in silence; the running call has tried all it passed.
PassedRowsTried(s) ==
  /\ \A i \in 1 .. committed[s] : i \in tried[s] \cup dropped[s]
  /\ phase[s] = "running" => \A i \in committed[s] + 1 .. next[s] - 1 : i \in tried[s]

SinksInv ==
  /\ SinksTypeOK
  /\ \A s \in Sink : CallInBatch(s) /\ MailsAccounted(s) /\ PassedRowsTried(s)

-----------------------------------------------------------------------------
\* The empty checkpoint of SinksInit satisfies the invariant.
LEMMA SinksInitially == SinksInit => SinksInv
<1> SUFFICES ASSUME SinksInit PROVE SinksInv
  OBVIOUS
<1>1. SinksTypeOK
  BY DEF SinksInit, SinksTypeOK
<1>2. ASSUME NEW s \in Sink
      PROVE  CallInBatch(s) /\ MailsAccounted(s) /\ PassedRowsTried(s)
  BY DEF SinksInit, CallInBatch, MailsAccounted, Passed, PassedRowsTried
<1> QED BY <1>1, <1>2 DEF SinksInv

\* What the state of one sink is for every action: the types of its components.
LEMMA SinkTypes ==
  ASSUME SinksTypeOK, NEW s \in Sink
  PROVE  /\ alerts[s] \in Seq(BOOLEAN) /\ Len(alerts[s]) \in Nat
         /\ committed[s] \in Nat /\ batchEnd[s] \in Nat /\ next[s] \in Nat \ {0}
         /\ committed[s] <= batchEnd[s] /\ batchEnd[s] <= Len(alerts[s])
         /\ phase[s] \in {"idle", "planned", "running"}
         /\ sent[s] \in [1 .. MaxAlerts -> Nat]
         /\ tried[s] \in SUBSET Nat /\ dropped[s] \in SUBSET Nat
         /\ crashes[s] \in Nat
BY LenProperties DEF SinksTypeOK

\* An action of one sink leaves the other one as it is; what holds of both is
\* preserved when it is preserved for the one that moved.
LEMMA OtherSinkKept ==
  ASSUME NEW s \in Sink, NEW r \in Sink, SinksInv,
         committed'[r] = committed[r], batchEnd'[r] = batchEnd[r], phase'[r] = phase[r],
         next'[r] = next[r], sent'[r] = sent[r], tried'[r] = tried[r],
         dropped'[r] = dropped[r], crashes'[r] = crashes[r]
  PROVE  (CallInBatch(r) /\ MailsAccounted(r) /\ PassedRowsTried(r))'
BY DEF SinksInv, CallInBatch, MailsAccounted, Passed, PassedRowsTried

\* A new alert is past every batch, and disturbs no sink's progress.
LEMMA RaiseAlertPreserves ==
  ASSUME SinksInv, NEW s \in Sink, NEW mailable \in BOOLEAN, RaiseAlert(s, mailable)
  PROVE  SinksInv'
<1>1. Len(Append(alerts[s], mailable)) = Len(alerts[s]) + 1
      /\ Append(alerts[s], mailable) \in Seq(BOOLEAN)
  BY SinkTypes, AppendProperties DEF SinksInv
<1>2. SinksTypeOK'
  <2>1. alerts' \in [Sink -> Seq(BOOLEAN)]
    BY <1>1 DEF SinksInv, SinksTypeOK, RaiseAlert
  <2>2. ASSUME NEW r \in Sink
        PROVE  committed'[r] <= batchEnd'[r] /\ batchEnd'[r] <= Len(alerts'[r])
    <3>1. /\ committed'[r] = committed[r] /\ batchEnd'[r] = batchEnd[r]
          /\ alerts'[r] = alerts[r] \/ (r = s /\ alerts'[r] = Append(alerts[s], mailable))
      BY DEF RaiseAlert, SinksInv, SinksTypeOK
    <3>2. /\ committed[r] \in Nat /\ batchEnd[r] \in Nat /\ Len(alerts[r]) \in Nat
          /\ committed[r] <= batchEnd[r] /\ batchEnd[r] <= Len(alerts[r])
      BY SinkTypes DEF SinksInv
    <3> QED BY <1>1, <3>1, <3>2
  <2> QED BY <2>1, <2>2 DEF SinksInv, SinksTypeOK, RaiseAlert
<1>3. ASSUME NEW r \in Sink PROVE (CallInBatch(r) /\ MailsAccounted(r) /\ PassedRowsTried(r))'
  BY OtherSinkKept DEF RaiseAlert
<1> QED BY <1>2, <1>3 DEF SinksInv

\* Planning logs an end past the checkpoint, and nothing is passed yet.
LEMMA PlanBatchPreserves ==
  ASSUME SinksInv, NEW s \in Sink, PlanBatch(s)
  PROVE  SinksInv'
<1>1. PICK upto \in committed[s] + 1 .. Len(alerts[s]) : batchEnd' = [batchEnd EXCEPT ![s] = upto]
  BY DEF PlanBatch
<1>2. SinksTypeOK'
  <2>1. batchEnd' \in [Sink -> Nat] /\ phase' \in [Sink -> {"idle", "planned", "running"}]
    BY <1>1, SinkTypes DEF SinksInv, SinksTypeOK, PlanBatch
  <2>2. ASSUME NEW r \in Sink
        PROVE  committed'[r] <= batchEnd'[r] /\ batchEnd'[r] <= Len(alerts'[r])
    BY <1>1, SinkTypes DEF SinksInv, SinksTypeOK, PlanBatch
  <2> QED BY <2>1, <2>2 DEF SinksInv, SinksTypeOK, PlanBatch
<1>3. (CallInBatch(s) /\ MailsAccounted(s) /\ PassedRowsTried(s))'
  BY <1>1 DEF SinksInv, SinksTypeOK, PlanBatch, CallInBatch, MailsAccounted, Passed, PassedRowsTried
<1>4. ASSUME NEW r \in Sink, r # s PROVE (CallInBatch(r) /\ MailsAccounted(r) /\ PassedRowsTried(r))'
  <2> (/\ committed'[r] = committed[r] /\ batchEnd'[r] = batchEnd[r] /\ phase'[r] = phase[r]
       /\ next'[r] = next[r] /\ sent'[r] = sent[r] /\ tried'[r] = tried[r]
       /\ dropped'[r] = dropped[r] /\ crashes'[r] = crashes[r])
    BY <1>1, <1>4 DEF PlanBatch, SinksInv, SinksTypeOK
  <2> QED BY OtherSinkKept
<1> QED BY <1>2, <1>3, <1>4 DEF SinksInv

\* The call starts at the row after the checkpoint: it has passed nothing more.
LEMMA CallSinkPreserves ==
  ASSUME SinksInv, NEW s \in Sink, CallSink(s)
  PROVE  SinksInv'
<1>1. SinksTypeOK'
  BY SinkTypes DEF SinksInv, SinksTypeOK, CallSink, FirstRow
<1>2. /\ next'[s] = committed[s] + 1 /\ phase'[s] = "running" /\ phase[s] = "planned"
      /\ UNCHANGED <<alerts, committed, batchEnd, sent, tried, dropped, crashes>>
  BY DEF CallSink, FirstRow, SinksInv, SinksTypeOK
<1>3. CallInBatch(s)'
  <2>1. committed[s] < batchEnd[s] + 1
    BY SinkTypes DEF SinksInv
  <2> QED BY <1>2, <2>1, SinkTypes DEF CallInBatch, SinksInv
<1>4. MailsAccounted(s)'
  BY <1>2, SinkTypes DEF SinksInv, MailsAccounted, Passed
<1>5. PassedRowsTried(s)'
  BY <1>2, SinkTypes DEF SinksInv, PassedRowsTried
<1>6. ASSUME NEW r \in Sink, r # s PROVE (CallInBatch(r) /\ MailsAccounted(r) /\ PassedRowsTried(r))'
  <2> (/\ committed'[r] = committed[r] /\ batchEnd'[r] = batchEnd[r] /\ phase'[r] = phase[r]
       /\ next'[r] = next[r] /\ sent'[r] = sent[r] /\ tried'[r] = tried[r]
       /\ dropped'[r] = dropped[r] /\ crashes'[r] = crashes[r])
    BY <1>6 DEF CallSink, SinksInv, SinksTypeOK
  <2> QED BY OtherSinkKept
<1> QED BY <1>1, <1>3, <1>4, <1>5, <1>6 DEF SinksInv

\* A batch returned for want of a password is committed, all of it dropped.
LEMMA PasswordMissingPreserves ==
  ASSUME SinksInv, NEW s \in Sink, PasswordMissing(s)
  PROVE  SinksInv'
<1>1. SinksTypeOK'
  <2>1. committed' \in [Sink -> Nat] /\ phase' \in [Sink -> {"idle", "planned", "running"}]
    BY DEF SinksInv, SinksTypeOK, PasswordMissing
  <2>2. ASSUME NEW r \in Sink
        PROVE  committed'[r] <= batchEnd'[r] /\ batchEnd'[r] <= Len(alerts'[r])
    BY SinkTypes DEF SinksInv, SinksTypeOK, PasswordMissing
  <2>3. dropped' \in [Sink -> SUBSET Nat]
    BY SinkTypes DEF SinksInv, SinksTypeOK, PasswordMissing
  <2> QED BY <2>1, <2>2, <2>3 DEF SinksInv, SinksTypeOK, PasswordMissing
<1>2. /\ phase'[s] = "idle" /\ phase[s] = "planned" /\ committed'[s] = batchEnd[s]
      /\ dropped'[s] = dropped[s] \cup (committed[s] + 1 .. batchEnd[s])
      /\ UNCHANGED <<alerts, batchEnd, next, sent, tried, crashes>>
  BY DEF PasswordMissing, SinksInv, SinksTypeOK
<1>3. CallInBatch(s)'
  BY <1>2 DEF CallInBatch
<1>4. MailsAccounted(s)'
  BY <1>2, SinkTypes DEF SinksInv, MailsAccounted, Passed
<1>5. PassedRowsTried(s)'
  BY <1>2, SinkTypes DEF SinksInv, PassedRowsTried
<1>6. ASSUME NEW r \in Sink, r # s PROVE (CallInBatch(r) /\ MailsAccounted(r) /\ PassedRowsTried(r))'
  <2> (/\ committed'[r] = committed[r] /\ batchEnd'[r] = batchEnd[r] /\ phase'[r] = phase[r]
       /\ next'[r] = next[r] /\ sent'[r] = sent[r] /\ tried'[r] = tried[r]
       /\ dropped'[r] = dropped[r] /\ crashes'[r] = crashes[r])
    BY <1>6 DEF PasswordMissing, SinksInv, SinksTypeOK
  <2> QED BY OtherSinkKept
<1> QED BY <1>1, <1>3, <1>4, <1>5, <1>6 DEF SinksInv

\* The rows of a mail are the next row, or the next row and all after it; either
\* way they lie in the batch, and the call goes on past the last of them.
LEMMA MailCoversWhatIsPassed ==
  ASSUME SinksInv, NEW s \in Sink, NEW accepted \in BOOLEAN, next[s] <= batchEnd[s]
  PROVE  /\ MailRows(s) = next[s] .. NextRow(s, accepted) - 1
         /\ NextRow(s, accepted) \in Nat \ {0}
         /\ next[s] < NextRow(s, accepted) /\ NextRow(s, accepted) <= batchEnd[s] + 1
<1>1. next[s] \in Nat \ {0} /\ batchEnd[s] \in Nat
  BY SinkTypes DEF SinksInv
<1>2. CASE s = PerAlert
  <2>1. MailRows(s) = {next[s]} /\ NextRow(s, accepted) = next[s] + 1
    BY <1>2 DEF MailRows, NextRow
  <2>2. {next[s]} = next[s] .. (next[s] + 1) - 1
    BY <1>1
  <2> QED BY <1>1, <2>1, <2>2
<1>3. CASE s # PerAlert
  <2>1. MailRows(s) = next[s] .. batchEnd[s] /\ NextRow(s, accepted) = batchEnd[s] + 1
    BY <1>3 DEF MailRows, NextRow
  <2>2. (batchEnd[s] + 1) - 1 = batchEnd[s]
    BY <1>1
  <2> QED BY <1>1, <2>1, <2>2
<1> QED BY <1>2, <1>3

\* A mail adds one to the rows it names; the call had not passed them before and
\* has passed them after, whether the server took the mail or not.
LEMMA SendMailPreserves ==
  ASSUME SinksInv, NEW s \in Sink, NEW accepted \in BOOLEAN, SendMail(s, accepted)
  PROVE  SinksInv'
<1> DEFINE last == NextRow(s, accepted)
<1>0. /\ committed[s] \in Nat /\ batchEnd[s] \in Nat /\ next[s] \in Nat \ {0} /\ crashes[s] \in Nat
      /\ sent[s] \in [1 .. MaxAlerts -> Nat] /\ tried[s] \in SUBSET Nat
  BY SinkTypes DEF SinksInv
<1>1. /\ MailRows(s) = next[s] .. last - 1
      /\ last \in Nat \ {0} /\ next[s] < last /\ last <= batchEnd[s] + 1
  BY MailCoversWhatIsPassed DEF SendMail
<1>2. /\ phase[s] = "running" /\ phase'[s] = "running" /\ next'[s] = last
      /\ tried'[s] = tried[s] \cup (next[s] .. last - 1)
      /\ sent'[s] = [i \in 1 .. MaxAlerts |->
                       IF accepted /\ i \in MailRows(s) THEN sent[s][i] + 1 ELSE sent[s][i]]
      /\ UNCHANGED <<alerts, committed, batchEnd, dropped, crashes>>
  BY <1>1 DEF SendMail, PhaseAfterMail, SinksInv, SinksTypeOK
<1>3. \A i \in 1 .. MaxAlerts :
        /\ sent'[s][i] = sent[s][i]
           \/ (sent'[s][i] = sent[s][i] + 1 /\ next[s] <= i /\ i < last)
        /\ sent[s][i] \in Nat
  <2> SUFFICES ASSUME NEW i \in 1 .. MaxAlerts
               PROVE  /\ sent'[s][i] = sent[s][i]
                         \/ (sent'[s][i] = sent[s][i] + 1 /\ next[s] <= i /\ i < last)
                      /\ sent[s][i] \in Nat
    OBVIOUS
  <2>1. sent[s][i] \in Nat
    BY SinkTypes DEF SinksInv
  <2>2. CASE accepted /\ i \in MailRows(s)
    <3>1. sent'[s][i] = sent[s][i] + 1
      BY <1>2, <2>2
    <3>2. i \in next[s] .. last - 1
      BY <1>1, <2>2
    <3>3. next[s] <= i /\ i < last
      BY <1>0, <1>1, <3>2
    <3> QED BY <2>1, <3>1, <3>3
  <2>3. CASE ~(accepted /\ i \in MailRows(s))
    BY <1>2, <2>1, <2>3
  <2> QED BY <2>2, <2>3
<1> HIDE DEF last
<1>4. SinksTypeOK'
  <2>1. sent'[s] \in [1 .. MaxAlerts -> Nat]
    <3>1. \A i \in 1 .. MaxAlerts : sent'[s][i] \in Nat
      BY <1>3
    <3> QED BY <1>2, <3>1
  <2>2. sent' \in [Sink -> [1 .. MaxAlerts -> Nat]]
    BY <2>1 DEF SendMail, SinksInv, SinksTypeOK
  <2>3. tried' \in [Sink -> SUBSET Nat]
    <3>1. tried'[s] \in SUBSET Nat
      BY <1>1, <1>2, SinkTypes DEF SinksInv
    <3> QED BY <3>1 DEF SendMail, SinksInv, SinksTypeOK
  <2>4. next' \in [Sink -> Nat \ {0}] /\ phase' \in [Sink -> {"idle", "planned", "running"}]
    BY <1>1 DEF SendMail, PhaseAfterMail, SinksInv, SinksTypeOK, last
  <2> QED BY <1>2, <2>2, <2>3, <2>4 DEF SinksInv, SinksTypeOK
<1>5. CallInBatch(s)'
  BY <1>1, <1>2, SinkTypes DEF SinksInv, CallInBatch
<1>6. MailsAccounted(s)'
  <2> SUFFICES ASSUME NEW i \in 1 .. MaxAlerts
               PROVE  /\ sent'[s][i] <= 1 + crashes[s]
                      /\ ~(i <= committed[s] \/ i < last) => sent'[s][i] <= crashes[s]
    BY <1>2 DEF MailsAccounted, Passed
  <2>1. /\ sent[s][i] <= 1 + crashes[s]
        /\ ~(i <= committed[s] \/ i < next[s]) => sent[s][i] <= crashes[s]
    BY <1>2 DEF SinksInv, MailsAccounted, Passed
  <2>2. committed[s] < next[s]
    BY <1>2 DEF SinksInv, CallInBatch
  <2>3. CASE sent'[s][i] = sent[s][i]
    BY <1>0, <1>1, <2>1, <2>2, <2>3
  <2>4. CASE sent'[s][i] = sent[s][i] + 1 /\ next[s] <= i /\ i < last
    <3>1. ~(i <= committed[s] \/ i < next[s])
      BY <1>0, <2>2, <2>4
    <3>2. sent[s][i] \in Nat
      BY <1>0
    <3> QED BY <1>0, <2>1, <2>4, <3>1, <3>2
  <2> QED BY <1>3, <2>3, <2>4
<1>7. PassedRowsTried(s)'
  <2>1. \A i \in committed[s] + 1 .. last - 1 : i \in tried'[s]
    <3>1. \A i \in committed[s] + 1 .. next[s] - 1 : i \in tried[s]
      BY <1>2 DEF SinksInv, PassedRowsTried
    <3> QED BY <1>1, <1>2, <3>1, SinkTypes DEF SinksInv
  <2> QED BY <1>2, <2>1 DEF SinksInv, PassedRowsTried
<1>8. ASSUME NEW r \in Sink, r # s PROVE (CallInBatch(r) /\ MailsAccounted(r) /\ PassedRowsTried(r))'
  <2> (/\ committed'[r] = committed[r] /\ batchEnd'[r] = batchEnd[r] /\ phase'[r] = phase[r]
       /\ next'[r] = next[r] /\ sent'[r] = sent[r] /\ tried'[r] = tried[r]
       /\ dropped'[r] = dropped[r] /\ crashes'[r] = crashes[r])
    BY <1>8 DEF SendMail, SinksInv, SinksTypeOK
  <2> QED BY OtherSinkKept
<1> QED BY <1>4, <1>5, <1>6, <1>7, <1>8 DEF SinksInv

\* A call that returns has passed the whole batch, which is then committed.
LEMMA CommitBatchPreserves ==
  ASSUME SinksInv, NEW s \in Sink, CommitBatch(s)
  PROVE  SinksInv'
<1>1. SinksTypeOK'
  <2>1. committed' \in [Sink -> Nat] /\ phase' \in [Sink -> {"idle", "planned", "running"}]
    BY DEF SinksInv, SinksTypeOK, CommitBatch
  <2>2. ASSUME NEW r \in Sink
        PROVE  committed'[r] <= batchEnd'[r] /\ batchEnd'[r] <= Len(alerts'[r])
    BY SinkTypes DEF SinksInv, SinksTypeOK, CommitBatch
  <2> QED BY <2>1, <2>2 DEF SinksInv, SinksTypeOK, CommitBatch
<1>2. /\ phase'[s] = "idle" /\ phase[s] = "running" /\ committed'[s] = batchEnd[s]
      /\ next[s] > batchEnd[s]
      /\ UNCHANGED <<alerts, batchEnd, next, sent, tried, dropped, crashes>>
  BY DEF CommitBatch, SinksInv, SinksTypeOK
<1>3. next[s] = batchEnd[s] + 1
  BY <1>2, SinkTypes DEF SinksInv, CallInBatch
<1>4. CallInBatch(s)'
  BY <1>2 DEF CallInBatch
<1>5. MailsAccounted(s)'
  <2> SUFFICES ASSUME NEW i \in 1 .. MaxAlerts
               PROVE  /\ sent[s][i] <= 1 + crashes[s]
                      /\ ~(i <= batchEnd[s]) => sent[s][i] <= crashes[s]
    BY <1>2 DEF MailsAccounted, Passed
  <2>1. /\ sent[s][i] <= 1 + crashes[s]
        /\ ~(i <= committed[s] \/ i < next[s]) => sent[s][i] <= crashes[s]
    BY <1>2 DEF SinksInv, MailsAccounted, Passed
  <2>2. committed[s] \in Nat /\ batchEnd[s] \in Nat /\ committed[s] <= batchEnd[s]
    BY SinkTypes DEF SinksInv
  <2> QED BY <1>3, <2>1, <2>2
<1>6. PassedRowsTried(s)'
  BY <1>2, <1>3, SinkTypes DEF SinksInv, PassedRowsTried
<1>7. ASSUME NEW r \in Sink, r # s PROVE (CallInBatch(r) /\ MailsAccounted(r) /\ PassedRowsTried(r))'
  <2> (/\ committed'[r] = committed[r] /\ batchEnd'[r] = batchEnd[r] /\ phase'[r] = phase[r]
       /\ next'[r] = next[r] /\ sent'[r] = sent[r] /\ tried'[r] = tried[r]
       /\ dropped'[r] = dropped[r] /\ crashes'[r] = crashes[r])
    BY <1>7 DEF CommitBatch, SinksInv, SinksTypeOK
  <2> QED BY OtherSinkKept
<1> QED BY <1>1, <1>4, <1>5, <1>6, <1>7 DEF SinksInv

\* The crash takes over the mails of the run it ended: they are counted as its.
LEMMA CrashPreserves ==
  ASSUME SinksInv, NEW s \in Sink, Crash(s)
  PROVE  SinksInv'
<1>1. SinksTypeOK'
  <2>1. phase' \in [Sink -> {"idle", "planned", "running"}] /\ crashes' \in [Sink -> Nat]
    BY DEF SinksInv, SinksTypeOK, Crash
  <2> QED BY <2>1 DEF SinksInv, SinksTypeOK, Crash
<1>2. /\ phase'[s] = "planned" /\ phase[s] = "running" /\ crashes'[s] = crashes[s] + 1
      /\ UNCHANGED <<alerts, committed, batchEnd, next, sent, tried, dropped>>
  BY DEF Crash, SinksInv, SinksTypeOK
<1>3. CallInBatch(s)'
  BY <1>2 DEF CallInBatch
<1>4. MailsAccounted(s)'
  BY <1>2, SinkTypes DEF SinksInv, MailsAccounted, Passed
<1>5. PassedRowsTried(s)'
  BY <1>2, SinkTypes DEF SinksInv, PassedRowsTried
<1>6. ASSUME NEW r \in Sink, r # s PROVE (CallInBatch(r) /\ MailsAccounted(r) /\ PassedRowsTried(r))'
  <2> (/\ committed'[r] = committed[r] /\ batchEnd'[r] = batchEnd[r] /\ phase'[r] = phase[r]
       /\ next'[r] = next[r] /\ sent'[r] = sent[r] /\ tried'[r] = tried[r]
       /\ dropped'[r] = dropped[r] /\ crashes'[r] = crashes[r])
    BY <1>6 DEF Crash, SinksInv, SinksTypeOK
  <2> QED BY OtherSinkKept
<1> QED BY <1>1, <1>3, <1>4, <1>5, <1>6 DEF SinksInv

\* Every action of either sink, and the arrival of an alert, keeps SinksInv.
LEMMA SinksStep == SinksInv /\ [SinksNext]_sinkVars => SinksInv'
<1> SUFFICES ASSUME SinksInv, [SinksNext]_sinkVars PROVE SinksInv'
  OBVIOUS
<1>1. CASE SinksNext
  <2>1. PICK s \in Sink : \/ \E mailable \in BOOLEAN : RaiseAlert(s, mailable)
                          \/ SinkStep(s)
                          \/ Crash(s)
    BY <1>1 DEF SinksNext
  <2>2. CASE \E mailable \in BOOLEAN : RaiseAlert(s, mailable)
    BY <2>2, RaiseAlertPreserves
  <2>3. CASE SinkStep(s)
    BY <2>3, PlanBatchPreserves, CallSinkPreserves, PasswordMissingPreserves,
       CommitBatchPreserves, SendMailPreserves DEF SinkStep
  <2>4. CASE Crash(s)
    BY <2>4, CrashPreserves
  <2> QED BY <2>1, <2>2, <2>3, <2>4
<1>2. CASE UNCHANGED sinkVars
  BY <1>2 DEF sinkVars, SinksInv, SinksTypeOK, CallInBatch, MailsAccounted, Passed, PassedRowsTried
<1> QED BY <1>1, <1>2

\* SinksInv holds of every state the two queries reach, crashes included.
LEMMA SinksAlways == SinksSpec => []SinksInv
BY SinksInitially, SinksStep, PTL DEF SinksSpec

\* The checkpoint of a sink never runs ahead of its offset log, nor the log
\* ahead of the alert table: a batch holds rows that exist.
THEOREM SinksTyped == SinksSpec => []SinksTypeOK
<1>1. SinksInv => SinksTypeOK
  BY DEF SinksInv
<1> QED BY <1>1, SinksAlways, PTL

\* An alert is mailed at most once more than its sink crashed, for any number of
\* alerts and crashes: neither a later batch nor a failed mail repeats one.
THEOREM MailsRepeatOnlyByCrash == SinksSpec => []MailRepeatedOnlyByCrash
<1>1. SinksInv => MailRepeatedOnlyByCrash
  BY DEF SinksInv, MailsAccounted, MailRepeatedOnlyByCrash
<1> QED BY <1>1, SinksAlways, PTL

\* Every committed row was tried, or dropped with its batch when the password
\* was missing: the failure of one mail is not the silence of the next.
THEOREM FailuresContained == SinksSpec => []FailureIsContained
<1>1. SinksInv => FailureIsContained
  BY DEF SinksInv, PassedRowsTried, FailureIsContained
<1> QED BY <1>1, SinksAlways, PTL
=============================================================================
