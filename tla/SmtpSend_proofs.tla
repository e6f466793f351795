-------------------------- MODULE SmtpSend_proofs --------------------------
(***************************************************************************)
(* Theorems about SmtpSend, for any number of recipients: the safety of    *)
(* one notification, whatever the server and the context do.               *)
(***************************************************************************)
EXTENDS SmtpSend, TLAPS

Types ==
  /\ pc \in Command \cup {"check", "dial", "closing", "returned"}
  /\ waiting \in BOOLEAN
  /\ result \in {"none", "nil", "error"}
  /\ quiet \in BOOLEAN /\ insecure \in BOOLEAN /\ login \in BOOLEAN
  /\ local \in BOOLEAN /\ offersTLS \in BOOLEAN
  /\ tls \in BOOLEAN /\ secret \in {"unsent", "plain", "encrypted"}
  /\ rcpts \in 0..NumRecipients /\ accepted \in BOOLEAN

(* The commands after the connection was, or was not, encrypted.           *)
Late == {"auth", "mail", "rcpt", "data", "body", "quit"}

(* How far the dialogue is at each command.                                *)
Progress ==
  /\ waiting => pc \in Command
  /\ pc \in Late => tls \/ insecure
  /\ pc \in {"data", "body", "quit"} => rcpts = NumRecipients
  /\ pc = "rcpt" => rcpts < NumRecipients
  /\ pc = "quit" => accepted
  /\ pc \notin {"closing", "returned"} => result = "none"
  /\ pc \in Command \ {"quit"} => ~accepted
  /\ pc \notin Late \cup {"closing", "returned"} => rcpts = 0
  /\ pc \in {"auth", "mail"} => rcpts = 0
  /\ pc \in {"check", "dial"} => ~accepted

SendInv == Types /\ Progress /\ ClearOnlyWithOverride /\ NilMeansDelivered

-----------------------------------------------------------------------------

(* A step of the sending goroutine.                                        *)
LEMMA SenderKeeps ==
  ASSUME SendInv, Sender
  PROVE  SendInv'
<1> USE SmtpAssumption DEF SendInv, Types, Progress, ClearOnlyWithOverride, NilMeansDelivered,
      Command, Late, Return, Fail, options, server, link
<1>1. CASE Check
  <2>1. CASE quiet
    BY <1>1, <2>1 DEF Check
  <2>2. CASE ~quiet /\ pc' = "closing"
    BY <1>1, <2>2 DEF Check
  <2>3. CASE ~quiet /\ pc' = "dial"
    BY <1>1, <2>3 DEF Check
  <2> QED
    BY <1>1, <2>1, <2>2, <2>3 DEF Check
<1>2. CASE Dial
  BY <1>2 DEF Dial
<1>3. CASE Begin
  <2>1. CASE Fail
    BY <1>3, <2>1 DEF Begin
  <2>2. CASE UNCHANGED <<pc, result>> /\ pc # "auth"
    <3>1. UNCHANGED <<quiet, insecure, login, local, offersTLS, tls, secret, rcpts, accepted>>
      BY <1>3, <2>2 DEF Begin
    <3>2. waiting' = TRUE /\ pc \in Command
      BY <1>3, <2>2 DEF Begin
    <3>3. Types' /\ Progress'
      BY <2>2, <3>1, <3>2
    <3> QED
      BY <2>2, <3>1, <3>3
  <2>3. CASE UNCHANGED <<pc, result>> /\ pc = "auth"
    <3>1. /\ tls \/ local
          /\ secret' = IF tls THEN "encrypted" ELSE "plain"
      BY <1>3, <2>3 DEF Begin, PasswordRefused
    <3>2. UNCHANGED <<quiet, insecure, login, local, offersTLS, tls, rcpts, accepted>> /\ waiting' = TRUE
      BY <1>3, <2>3 DEF Begin
    <3>3. Types' /\ Progress'
      BY <2>3, <3>1, <3>2
    <3>4. ClearOnlyWithOverride'
      BY <2>3, <3>1, <3>2
    <3> QED
      BY <2>3, <3>2, <3>3, <3>4
  <2> QED
    BY <1>3, <2>1, <2>2, <2>3 DEF Begin
<1>4. CASE GiveUp
  BY <1>4 DEF GiveUp, MayHaveAccepted
<1>5. CASE Close
  BY <1>5 DEF Close
<1> QED
  BY <1>1, <1>2, <1>3, <1>4, <1>5 DEF Sender

(* A positive answer, command by command.                                  *)
LEMMA AnswersKeep ==
  ASSUME SendInv, Answers
  PROVE  SendInv'
<1> USE SmtpAssumption DEF SendInv, Types, Progress, ClearOnlyWithOverride, NilMeansDelivered,
      Command, Late, Return, Fail, Then, options, server, link
<1>1. CASE pc \in {"greeting", "auth", "mail", "data"}
  <2>1. /\ pc' = CASE pc = "greeting" -> "ehlo" [] pc = "auth" -> "mail"
                   [] pc = "mail" -> "rcpt" [] pc = "data" -> "body"
        /\ waiting' = FALSE
        /\ UNCHANGED <<result, quiet, insecure, login, local, offersTLS, tls, secret, rcpts, accepted>>
    <3>1. CASE pc = "greeting"
      BY <3>1 DEF Answers
    <3>2. CASE pc = "auth"
      BY <3>2 DEF Answers
    <3>3. CASE pc = "mail"
      BY <3>3 DEF Answers
    <3>4. CASE pc = "data"
      BY <3>4 DEF Answers
    <3> QED
      BY <1>1, <3>1, <3>2, <3>3, <3>4
  <2>2. Types'
    BY <1>1, <2>1
  <2>3. Progress'
    BY <1>1, <2>1
  <2> QED
    BY <1>1, <2>1, <2>2, <2>3
<1>6. CASE pc = "quit"
  BY <1>6 DEF Answers
<1>2. CASE pc = "ehlo"
  BY <1>2 DEF Answers, WithoutTLS, GoOnInClear, Envelope
<1>3. CASE pc = "starttls"
  BY <1>3 DEF Answers, UpgradeToTLS, Envelope
<1>4. CASE pc = "rcpt"
  <2>1. /\ pc' = IF rcpts + 1 = NumRecipients THEN "data" ELSE "rcpt"
        /\ rcpts' = rcpts + 1 /\ waiting' = FALSE
        /\ UNCHANGED <<tls, secret, accepted, result, quiet, insecure, login, local, offersTLS>>
    BY <1>4 DEF Answers, AllRecipients
  <2>2. rcpts + 1 \in 0..NumRecipients
    BY <1>4
  <2>3. Types'
    BY <1>4, <2>1, <2>2
  <2>4. Progress'
    BY <1>4, <2>1
  <2> QED
    BY <1>4, <2>1, <2>3, <2>4
<1>5. CASE pc = "body"
  BY <1>5 DEF Answers
<1> QED
  BY <1>1, <1>2, <1>3, <1>4, <1>5, <1>6 DEF Answers

(* Every step keeps the invariant.                                         *)
LEMMA StepKeeps ==
  ASSUME SendInv, [Next]_vars
  PROVE  SendInv'
<1> USE SmtpAssumption DEF SendInv, Types, Progress, ClearOnlyWithOverride, NilMeansDelivered,
      Command, Late, Return, Fail, options, server, link
<1>1. CASE Sender
  BY <1>1, SenderKeeps
<1>2. CASE Answers
  BY <1>2, AnswersKeep
<1>3. CASE Refuses
  BY <1>3 DEF Refuses, MayHaveAccepted
<1>4. CASE Cancel
  BY <1>4 DEF Cancel
<1>5. CASE WatcherEnds
  BY <1>5 DEF WatcherEnds
<1>6. CASE Ended \/ UNCHANGED vars
  BY <1>6 DEF Ended, vars
<1> QED
  BY <1>1, <1>2, <1>3, <1>4, <1>5, <1>6 DEF Next

(* The dialogue is as far as its command says, at all times.               *)
LEMMA Invariance == Spec => []SendInv
<1>1. Init => SendInv
  <2> SUFFICES ASSUME Init PROVE SendInv
    OBVIOUS
  <2>1. 0 \in 0..NumRecipients /\ ~(0 > 0)
    BY SmtpAssumption
  <2>2. Types
    BY <2>1, Zenon DEF Init, Types
  <2>3. Progress /\ ClearOnlyWithOverride /\ NilMeansDelivered
    BY <2>1, Zenon DEF Init, Progress, ClearOnlyWithOverride, NilMeansDelivered, Command, Late
  <2> QED
    BY <2>2, <2>3 DEF SendInv
<1>2. SendInv /\ [Next]_vars => SendInv'
  BY StepKeeps
<1> QED
  BY <1>1, <1>2, PTL DEF Spec

(* In clear a message goes out only with the override for development, and *)
(* the password then only to the local host.                               *)
THEOREM NeverInClear == Spec => []ClearOnlyWithOverride
<1>1. SendInv => ClearOnlyWithOverride
  BY DEF SendInv
<1> QED
  BY <1>1, Invariance, PTL

(* Send returns nil only for a message that is not wanted or that the      *)
(* server accepted for all the recipients.                                 *)
THEOREM NilIsEarned == Spec => []NilMeansDelivered
<1>1. SendInv => NilMeansDelivered
  BY DEF SendInv
<1> QED
  BY <1>1, Invariance, PTL
=============================================================================
