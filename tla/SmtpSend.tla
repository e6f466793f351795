------------------------------ MODULE SmtpSend ------------------------------
(***************************************************************************)
(* SMTP.Send: the goroutine that talks to the server, the one that closes  *)
(* the connection when the context is done, and a server that answers,     *)
(* refuses, or never answers.  Every wait is bounded by a deadline set on  *)
(* the connection before it.                                               *)
(***************************************************************************)
EXTENDS Naturals

CONSTANT NumRecipients \* len(s.To)

ASSUME SmtpAssumption == NumRecipients \in Nat \ {0}

Command ==
  {"greeting", "ehlo", "starttls", "auth", "mail", "rcpt", "data", "body", "quit"}

VARIABLES
  pc,        \* "check", "dial", a command, "closing" or "returned"
  waiting,   \* the command was sent and its answer has not come
  armed,     \* a deadline is set on the connection
  conn,      \* "none", "open" or "closed"
  watcher,   \* the goroutine of closeConnOnContextDone: "none", "watching", "ended"
  cancelled, \* ctx is done
  result,    \* "none", "nil" or "error"
  quiet,     \* a success, with notifyOnFailureOnly
  insecure,  \* AllowInsecureNoTLSInDevelopment
  login,     \* Username # ""
  local,     \* the host is the local one, for PlainAuth
  offersTLS, \* the server announces STARTTLS
  tls,       \* the connection is encrypted
  secret,    \* how the password was sent: "unsent", "plain" or "encrypted"
  rcpts,     \* recipients the server accepted
  accepted   \* the server accepted the message

options == <<quiet, insecure, login, local, offersTLS>>
server == <<tls, secret, rcpts, accepted>>
link == <<conn, armed, watcher>>
vars == <<pc, waiting, link, cancelled, result, options, server>>

Init ==
  /\ pc = "check" /\ waiting = FALSE
  /\ conn = "none" /\ armed = FALSE /\ watcher = "none"
  /\ cancelled = FALSE /\ result = "none"
  /\ quiet \in BOOLEAN /\ insecure \in BOOLEAN /\ login \in BOOLEAN
  /\ local \in BOOLEAN /\ offersTLS \in BOOLEAN
  /\ tls = FALSE /\ secret = "unsent" /\ rcpts = 0 /\ accepted = FALSE

(* return, with the deferred closing of the connection. *)
Return(r) ==
  /\ pc' = "closing"
  /\ waiting' = FALSE
  /\ result' = r

Fail == Return("error")

-----------------------------------------------------------------------------
(* Send. *)

(* Nothing to say, a done context, or a header with a line break. *)
Check ==
  /\ pc = "check"
  /\ \/ quiet /\ Return("nil")
     \/ ~quiet /\ Fail
     \/ ~quiet /\ ~cancelled /\ pc' = "dial" /\ UNCHANGED <<waiting, result>>
  /\ UNCHANGED <<link, cancelled, options, server>>

NoDeadlineYet == FALSE
DeadlineAfterDial == TRUE

(* DialContext, bounded by its own timeout, the watcher, setConnDeadlines. *)
(* NewClient then waits for the greeting.                                  *)
Dial ==
  /\ pc = "dial"
  /\ \/ /\ ~cancelled
        /\ conn' = "open" /\ watcher' = "watching"
        /\ \/ /\ armed' = DeadlineAfterDial
              /\ pc' = "greeting" /\ waiting' = TRUE
              /\ UNCHANGED result
           \/ Fail /\ UNCHANGED armed
     \/ Fail /\ UNCHANGED link
  /\ UNCHANGED <<cancelled, options, server>>

(* PlainAuth gives the password to an encrypted connection or a local host.*)
PasswordRefused == pc = "auth" /\ ~tls /\ ~local

(* withConnDeadlines, up to the wait. *)
Begin ==
  /\ pc \in Command /\ ~waiting
  /\ \/ /\ ~cancelled /\ conn = "open" /\ ~PasswordRefused
        /\ armed' = TRUE
        /\ waiting' = TRUE
        /\ secret' = IF pc # "auth" THEN secret
                     ELSE IF tls THEN "encrypted" ELSE "plain"
        /\ UNCHANGED <<pc, result>>
     \/ Fail /\ UNCHANGED <<armed, secret>>
  /\ UNCHANGED <<conn, watcher, cancelled, options, tls, rcpts, accepted>>

(* What a server whose answer is lost may have done with the message. *)
MayHaveAccepted == accepted' \in IF pc = "body" THEN BOOLEAN ELSE {accepted}

(* The deadline passes, or the connection was closed. *)
GiveUp ==
  /\ waiting
  /\ armed \/ conn = "closed"
  /\ Fail
  /\ MayHaveAccepted
  /\ UNCHANGED <<link, cancelled, options, tls, secret, rcpts>>

(* client.Close, conn.Close and stopWatchingContext. *)
Close ==
  /\ pc = "closing"
  /\ conn' = IF conn = "open" THEN "closed" ELSE conn
  /\ pc' = "returned"
  /\ UNCHANGED <<waiting, armed, watcher, cancelled, result, options, server>>

-----------------------------------------------------------------------------
(* The server. *)

Envelope == IF login THEN "auth" ELSE "mail"

(* startTLSIfAvailable, when STARTTLS is not announced. *)
GoOnInClear == pc' = Envelope /\ UNCHANGED result /\ waiting' = FALSE
WithoutTLS ==
  \/ insecure /\ GoOnInClear
  \/ ~insecure /\ Fail

OneRecipientShort(n) == n + 1 >= NumRecipients
AllRecipients(n) == n = NumRecipients

Then(command) == pc' = command /\ waiting' = FALSE /\ UNCHANGED result

UpgradeToTLS ==
  Then(Envelope) /\ tls' = TRUE /\ UNCHANGED <<secret, rcpts, accepted>>

(* A positive answer to the command that waits. *)
Answers ==
  /\ waiting /\ conn = "open"
  /\ CASE pc = "greeting" -> Then("ehlo") /\ UNCHANGED server
       [] pc = "ehlo" ->
            (IF offersTLS THEN Then("starttls") ELSE WithoutTLS) /\ UNCHANGED server
       [] pc = "starttls" -> UpgradeToTLS
       [] pc = "auth" -> Then("mail") /\ UNCHANGED server
       [] pc = "mail" -> Then("rcpt") /\ UNCHANGED server
       [] pc = "rcpt" ->
            /\ Then(IF AllRecipients(rcpts + 1) THEN "data" ELSE "rcpt")
            /\ rcpts' = rcpts + 1
            /\ UNCHANGED <<tls, secret, accepted>>
       [] pc = "data" -> Then("body") /\ UNCHANGED server
       [] pc = "body" ->
            Then("quit") /\ accepted' = TRUE /\ UNCHANGED <<tls, secret, rcpts>>
       [] pc = "quit" -> Return("nil") /\ UNCHANGED server
  /\ UNCHANGED <<link, cancelled, options>>

(* A negative answer, or one that cannot be read.  After a failed EHLO     *)
(* Extension reports no STARTTLS, and the next command fails with its error*)
Refuses ==
  /\ waiting /\ conn = "open"
  /\ Fail
  /\ MayHaveAccepted
  /\ UNCHANGED <<link, cancelled, options, tls, secret, rcpts>>

-----------------------------------------------------------------------------
(* The context and its watcher. *)

Cancel ==
  /\ ~cancelled
  /\ cancelled' = TRUE
  /\ UNCHANGED <<pc, waiting, link, result, options, server>>

WatcherEnds ==
  /\ watcher = "watching"
  /\ \/ cancelled /\ conn' = "closed"
     \/ pc = "returned" /\ UNCHANGED conn
  /\ watcher' = "ended"
  /\ UNCHANGED <<pc, waiting, armed, cancelled, result, options, server>>

Sender == Check \/ Dial \/ Begin \/ GiveUp \/ Close

Ended == pc = "returned" /\ watcher # "watching" /\ UNCHANGED vars

Next == Sender \/ Answers \/ Refuses \/ Cancel \/ WatcherEnds \/ Ended

(* The two goroutines run and the deadlines pass; the server owes nothing. *)
Spec == Init /\ [][Next]_vars /\ WF_vars(Sender) /\ WF_vars(WatcherEnds)

-----------------------------------------------------------------------------
(* Properties. *)

(* In clear a message goes out only with the override for development, and *)
(* the password then only to the local host, whatever the server announces *)
(* and whenever it fails.                                                  *)
ClearOnlyWithOverride ==
  /\ (accepted \/ rcpts > 0) /\ ~tls => insecure
  /\ secret = "plain" => insecure /\ local

(* Send returns nil only for a notification that is not wanted or that the *)
(* server accepted for every recipient; a message is never accepted for    *)
(* some of them.  An accepted message may be an error: nothing tells a lost*)
(* answer, or a failed QUIT, from a lost message.                          *)
NilMeansDelivered ==
  /\ result = "nil" => quiet \/ accepted
  /\ accepted => rcpts = NumRecipients

(* Whatever the server does, and also if it never answers, Send returns,   *)
(* with its connection closed and its watcher gone.                        *)
ReturnsClean ==
  <>[](pc = "returned" /\ result # "none" /\ conn # "open" /\ watcher # "watching")
=============================================================================
