----------------------------- MODULE EmailSinks -----------------------------
(***************************************************************************)
(* The two foreachBatch sinks that mail the rows of the gold alert tables: *)
(*                                                                         *)
(*   fraud_email_notifier_sink  one mail per alert, to the customer;       *)
(*   email_alert_sink           one mail per micro-batch, to operations.   *)
(*                                                                         *)
(* The engine logs the end of a micro-batch before it calls the sink, and  *)
(* commits the batch when the call returns; after a crash it calls the     *)
(* sink again with the same rows.  The call fetches the SMTP password      *)
(* first and returns when it cannot.  A mail that cannot be built or sent  *)
(* is printed and passed over, so the call returns normally in any case.   *)
(* An SMTP error does not tell whether the mail was accepted.              *)
(***************************************************************************)
EXTENDS Integers, Sequences

CONSTANTS
  MaxAlerts,      \* bound: rows of each alert table
  MaxCrashes      \* bound: crashes of each sink's query

ASSUME SinksAssumption == MaxAlerts \in Nat /\ MaxCrashes \in Nat

PerAlert == "fraud_email_notifier_sink"
PerBatch == "email_alert_sink"
Sink == {PerAlert, PerBatch}

VARIABLES
  alerts,         \* per sink, for each row of its table whether it can be mailed
  committed,      \* per sink, the rows its checkpoint has committed
  batchEnd,       \* per sink, the last row of the batch the offset log holds
  phase,          \* per sink: "idle", "planned" (to be called) or "running"
  next,           \* per sink, the next row the running call mails
  sent,           \* per sink and row, the mails accepted that name it
  tried,          \* per sink, the rows a mail was attempted for
  dropped,        \* per sink, the rows of batches returned for want of a password
  crashes         \* per sink, the crashes so far

sinkVars == <<alerts, committed, batchEnd, phase, next, sent, tried, dropped, crashes>>

SinksInit ==
  /\ alerts = [s \in Sink |-> << >>]
  /\ committed = [s \in Sink |-> 0]
  /\ batchEnd = [s \in Sink |-> 0]
  /\ phase = [s \in Sink |-> "idle"]
  /\ next = [s \in Sink |-> 1]
  /\ sent = [s \in Sink |-> [i \in 1 .. MaxAlerts |-> 0]]
  /\ tried = [s \in Sink |-> {}]
  /\ dropped = [s \in Sink |-> {}]
  /\ crashes = [s \in Sink |-> 0]

\* A gold query appends an alert.  A fraud alert cannot be mailed when its
\* amount is NULL (float(None) raises) or no customer row gave an address; a
\* high-value alert has passed amount > transaction_limit, so it always can.
RaiseAlert(s, mailable) ==
  /\ Len(alerts[s]) < MaxAlerts
  /\ mailable \/ s = PerAlert
  /\ alerts' = [alerts EXCEPT ![s] = Append(@, mailable)]
  /\ UNCHANGED <<committed, batchEnd, phase, next, sent, tried, dropped, crashes>>

\* The engine plans a batch: its end offset is logged.
PlanBatch(s) ==
  /\ phase[s] = "idle"
  /\ \E upto \in committed[s] + 1 .. Len(alerts[s]) : batchEnd' = [batchEnd EXCEPT ![s] = upto]
  /\ phase' = [phase EXCEPT ![s] = "planned"]
  /\ UNCHANGED <<alerts, committed, next, sent, tried, dropped, crashes>>

\* Mutant: the batch starts at the last row committed.
LastCommittedRow(s) == committed[s]

\* A batch starts after the last row committed.
FirstRow(s) == committed[s] + 1

\* The sink is called and has its password.
CallSink(s) ==
  /\ phase[s] = "planned"
  /\ phase' = [phase EXCEPT ![s] = "running"]
  /\ next' = [next EXCEPT ![s] = FirstRow(s)]
  /\ UNCHANGED <<alerts, committed, batchEnd, sent, tried, dropped, crashes>>

\* secrets.get raises: the call prints, returns, and the batch is committed.
PasswordMissing(s) ==
  /\ phase[s] = "planned"
  /\ phase' = [phase EXCEPT ![s] = "idle"]
  /\ committed' = [committed EXCEPT ![s] = batchEnd[s]]
  /\ dropped' = [dropped EXCEPT ![s] = @ \cup (committed[s] + 1 .. batchEnd[s])]
  /\ UNCHANGED <<alerts, batchEnd, next, sent, tried, crashes>>

\* The rows of the next mail: one alert, or all of the batch.
MailRows(s) == IF s = PerAlert THEN {next[s]} ELSE next[s] .. batchEnd[s]

\* Mutant: the loop stops at the first mail that fails.
StopAtFailure(s, accepted) == IF accepted THEN next[s] + 1 ELSE batchEnd[s] + 1

\* The loop goes on with the row after the mail, accepted or not.
NextRow(s, accepted) == IF s = PerAlert THEN next[s] + 1 ELSE batchEnd[s] + 1

\* Mutant: the exception of a failed mail leaves the sink, and the batch is retried.
RetryBatch(accepted) == IF accepted THEN "running" ELSE "planned"

\* try/except around the mail: the call keeps running.
PhaseAfterMail(accepted) == "running"

SendMail(s, accepted) ==
  /\ phase[s] = "running" /\ next[s] <= batchEnd[s]
  /\ accepted => \A i \in MailRows(s) : alerts[s][i]
  /\ sent' = [sent EXCEPT ![s] =
                [i \in 1 .. MaxAlerts |-> IF accepted /\ i \in MailRows(s) THEN @[i] + 1 ELSE @[i]]]
  /\ tried' = [tried EXCEPT ![s] = @ \cup MailRows(s)]
  /\ next' = [next EXCEPT ![s] = NextRow(s, accepted)]
  /\ phase' = [phase EXCEPT ![s] = PhaseAfterMail(accepted)]
  /\ UNCHANGED <<alerts, committed, batchEnd, dropped, crashes>>

\* The call returns and the engine commits the batch.
CommitBatch(s) ==
  /\ phase[s] = "running" /\ next[s] > batchEnd[s]
  /\ phase' = [phase EXCEPT ![s] = "idle"]
  /\ committed' = [committed EXCEPT ![s] = batchEnd[s]]
  /\ UNCHANGED <<alerts, batchEnd, next, sent, tried, dropped, crashes>>

\* The query stops with the batch uncommitted; restarted, it runs it again.
Crash(s) ==
  /\ crashes[s] < MaxCrashes
  /\ phase[s] = "running"
  /\ crashes' = [crashes EXCEPT ![s] = @ + 1]
  /\ phase' = [phase EXCEPT ![s] = "planned"]
  /\ UNCHANGED <<alerts, committed, batchEnd, next, sent, tried, dropped>>

SinkStep(s) ==
  \/ PlanBatch(s) \/ CallSink(s) \/ PasswordMissing(s) \/ CommitBatch(s)
  \/ \E accepted \in BOOLEAN : SendMail(s, accepted)

SinksNext ==
  \E s \in Sink :
    \/ \E mailable \in BOOLEAN : RaiseAlert(s, mailable)
    \/ SinkStep(s)
    \/ Crash(s)

SinksSpec == SinksInit /\ [][SinksNext]_sinkVars

\* The engine keeps planning, calling and committing; nothing is assumed of the
\* mail server or the secret scope.
SinksFairSpec == SinksSpec /\ \A s \in Sink : WF_sinkVars(SinkStep(s))

-----------------------------------------------------------------------------
SinksTypeOK ==
  /\ alerts \in [Sink -> Seq(BOOLEAN)]
  /\ committed \in [Sink -> Nat] /\ batchEnd \in [Sink -> Nat]
  /\ phase \in [Sink -> {"idle", "planned", "running"}]
  /\ next \in [Sink -> Nat \ {0}]
  /\ sent \in [Sink -> [1 .. MaxAlerts -> Nat]]
  /\ tried \in [Sink -> SUBSET Nat] /\ dropped \in [Sink -> SUBSET Nat]
  /\ crashes \in [Sink -> Nat]
  /\ \A s \in Sink : committed[s] <= batchEnd[s] /\ batchEnd[s] <= Len(alerts[s])

\* An alert is mailed again only because a crash made the engine repeat the
\* batch: failed mails, later rows and later batches never repeat it.
MailRepeatedOnlyByCrash ==
  \A s \in Sink : \A i \in 1 .. MaxAlerts : sent[s][i] <= 1 + crashes[s]

\* A mail that fails does not silence the alerts after it: a committed row was
\* tried, unless its whole batch was returned for want of a password.
FailureIsContained ==
  \A s \in Sink : \A i \in 1 .. committed[s] : i \in tried[s] \cup dropped[s]

\* An alert that cannot be mailed does not hold up its sink: every alert raised
\* is eventually tried, or dropped with its batch.
EveryAlertReached ==
  \A s \in Sink : \A i \in 1 .. MaxAlerts :
    i <= Len(alerts[s]) ~> i \in tried[s] \cup dropped[s]
=============================================================================
