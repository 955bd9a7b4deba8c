------------------------------- MODULE SignIn -------------------------------
(* Signing in with a code sent to a phone, and what else a proven phone or a *)
(* signed-in account can ask of its own account:                             *)
(*   - AuthService.sendOtp, checkOtpCode and verifyOtp (auth.service.ts),    *)
(*     with the message going out through MSG91;                             *)
(*   - a request to delete the account, with a code or from the app          *)
(*     (account-deletion/), and its review by a platform admin;              *)
(*   - the e-mail linked to an account (auth/email-link.service.ts).         *)
(* A code's session is an entry of the process's cache: a call that checks a *)
(* code works on its own copy of it, and writes that copy back after a wrong *)
(* answer.  The users, the requests and the e-mails are rows of the          *)
(* database.  What a sign-in does to the membership is module Memberships,   *)
(* and how often a code may be sent is module RateLimits.                    *)
EXTENDS Integers, FiniteSets

CONSTANTS
  Phones,       \* phone numbers; a phone has at most one account
  Accounts,     \* ids an account may be given
  Sessions,     \* session ids, each used once
  Calls,        \* calls that may be under way at once
  Reviewers,    \* the accounts that are platform admins
  Emails,
  MaxAttempts,  \* OTP_MAX_ATTEMPTS
  NoAccount     \* absence of an account

ASSUME SignInAssumption ==
  /\ MaxAttempts \in Nat \ {0}
  /\ NoAccount \notin Accounts
  /\ Reviewers \subseteq Accounts

VARIABLES
  session,      \* the cached session of each session id
  issued,       \* the session ids made so far, with the phone of each
  given,        \* session ids a client was given
  account,      \* the account of each phone
  disabled,     \* accounts that are disabled
  filed,        \* deletion requests of each account, as states
  email,        \* the e-mail of each account, as a set of at most one
  calls,        \* what each call is doing
  wrongs,       \* history: wrong answers given on each session
  raced,        \* history: those written while another call held a copy
  spent,        \* history: how each session was ended by a right answer
  granted,      \* history: accounts each phone was signed in as
  told,         \* history: accounts told that their request was received
  linked        \* history: e-mails each account was told it has

sessionVars == <<session, issued, given>>
rowVars == <<account, disabled, filed, email>>
historyVars == <<wrongs, raced, spent, granted, told, linked>>
signInVars == <<sessionVars, rowVars, calls, historyVars>>

NoSession == [attempts |-> 0, locked |-> FALSE, live |-> FALSE]
NewSession == [attempts |-> 0, locked |-> FALSE, live |-> TRUE]

Resting == [kind |-> "none", stage |-> "idle", sid |-> "none",
            copy |-> NoSession, who |-> NoAccount]

Free(c) == calls[c].stage = "idle"
At(c, stage) == calls[c].stage = stage
Moves(c, stage) == calls' = [calls EXCEPT ![c].stage = stage]
Ends(c) == calls' = [calls EXCEPT ![c] = Resting]

PhoneOf(c) == issued[calls[c].sid]

(* Calls that hold a copy of a session and may still write it back.          *)
Holders(s) == {c \in Calls : At(c, "compare") /\ calls[c].sid = s}

SignInInit(start) ==
  /\ session = [s \in Sessions |-> NoSession]
  /\ issued = [s \in {} |-> "none"]
  /\ given = {}
  /\ account = start
  /\ disabled = {}
  /\ filed = [a \in Accounts |-> {}]
  /\ email = [a \in Accounts |-> {}]
  /\ calls = [c \in Calls |-> Resting]
  /\ wrongs = [s \in Sessions |-> 0]
  /\ raced = [s \in Sessions |-> 0]
  /\ spent = [s \in Sessions |-> "no"]
  /\ granted = [p \in Phones |-> {}]
  /\ told = {}
  /\ linked = [a \in Accounts |-> {}]

(***************************************************************************)
(* A code is sent                                                          *)
(***************************************************************************)

(* The session is stored before the message goes out.                        *)
SendCode(c, p, s) ==
  /\ Free(c) /\ s \notin DOMAIN issued
  /\ issued' = [t \in DOMAIN issued \cup {s} |-> IF t = s THEN p ELSE issued[t]]
  /\ session' = [session EXCEPT ![s] = NewSession]
  /\ calls' = [calls EXCEPT ![c] =
                 [Resting EXCEPT !.kind = "send", !.stage = "deliver", !.sid = s]]
  /\ UNCHANGED <<given, rowVars, historyVars>>

(* What MSG91 may answer, and what the adapter makes of it: a timeout may    *)
(* still become a message, anything else that is not a success may not.      *)
GatewayAnswers ==
  {"success", "timeout", "unreachable", "slow_body", "not_json", "refused", "http_error"}

Outcome(answer) ==
  CASE answer = "success"                 -> "ok"
    [] answer \in {"timeout", "slow_body"} -> "timeout"
    [] OTHER                              -> "error"

(* The message is handed over, or may have been, or was not, or the adapter  *)
(* itself broke.  Only the first answer gives the client the session id.     *)
DeliverCode(c) ==
  /\ At(c, "deliver")
  /\ \/ \E answer \in GatewayAnswers :
          CASE Outcome(answer) = "ok" ->
                 given' = given \cup {calls[c].sid} /\ Ends(c)
            [] Outcome(answer) = "timeout" -> UNCHANGED given /\ Ends(c)
            [] OTHER -> UNCHANGED given /\ Moves(c, "discard")
     \/ UNCHANGED given /\ Ends(c)
  /\ UNCHANGED <<session, issued, rowVars, historyVars>>

(* Nobody received the code: its session is deleted, if the cache does it.   *)
DiscardCode(c) ==
  /\ At(c, "discard")
  /\ \E done \in BOOLEAN :
       session' = IF done THEN [session EXCEPT ![calls[c].sid] = NoSession] ELSE session
  /\ Ends(c)
  /\ UNCHANGED <<issued, given, rowVars, historyVars>>

(***************************************************************************)
(* A code is checked                                                       *)
(***************************************************************************)

(* checkOtpCode's read: no session and a locked one are refused at once,     *)
(* otherwise the call takes a copy.                                          *)
CheckCode(c, kind, s) ==
  /\ Free(c) /\ s \in given
  /\ session[s].live /\ ~session[s].locked
  /\ calls' = [calls EXCEPT ![c] =
                 [Resting EXCEPT !.kind = kind, !.stage = "compare", !.sid = s,
                                 !.copy = session[s]]]
  /\ UNCHANGED <<sessionVars, rowVars, historyVars>>

(* The session after a wrong answer to a copy of it.                         *)
(* Mutant: the attempt is not counted. *)
UncountedAttempt(copy) == copy
WrongAttempt(copy) ==
  [copy EXCEPT !.attempts = @ + 1, !.locked = copy.attempts + 1 >= MaxAttempts]

AnswerWrong(c) ==
  LET s == calls[c].sid
  IN  /\ At(c, "compare")
      /\ session' = [session EXCEPT ![s] = WrongAttempt(calls[c].copy)]
      /\ wrongs' = [wrongs EXCEPT ![s] = @ + 1]
      /\ raced' = [raced EXCEPT ![s] = @ + (IF Holders(s) = {c} THEN 0 ELSE 1)]
      /\ Ends(c)
      /\ UNCHANGED <<issued, given, rowVars, spent, granted, told, linked>>

(* The right code: a sign-in looks its user up, a deletion ends the session  *)
(* first.                                                                    *)
AnswerRight(c) ==
  /\ At(c, "compare")
  /\ Moves(c, IF calls[c].kind = "login" THEN "find" ELSE "end")
  /\ UNCHANGED <<sessionVars, rowVars, historyVars>>

(* The session is deleted by a call whose code was right.                    *)
SessionEnded(c) ==
  LET s == calls[c].sid
  IN  /\ session' = [session EXCEPT ![s] = NoSession]
      /\ spent' = [spent EXCEPT ![s] =
                     IF Holders(s) = {} /\ @ # "overlapped" THEN "alone" ELSE "overlapped"]

(***************************************************************************)
(* verifyOtp                                                               *)
(***************************************************************************)

(* The row of the phone's user decides: a disabled one gets the answer of a  *)
(* wrong code, and keeps the session.                                        *)
SignsInAs(c, a) ==
  IF a \in disabled THEN Ends(c)
  ELSE calls' = [calls EXCEPT ![c].stage = "activate", ![c].who = a]

FindUser(c) ==
  LET a == account[PhoneOf(c)]
  IN  /\ At(c, "find")
      /\ IF a # NoAccount THEN SignsInAs(c, a) ELSE Moves(c, "insert")
      /\ UNCHANGED <<sessionVars, rowVars, historyVars>>

(* The first sign-in creates the user; if another one did so since the look- *)
(* up, the unique phone refuses the insert and the row is read back.         *)
InsertUser(c) ==
  /\ At(c, "insert")
  /\ IF account[PhoneOf(c)] = NoAccount
     THEN \E a \in Accounts \ {account[p] : p \in Phones} :
            /\ account' = [account EXCEPT ![PhoneOf(c)] = a]
            /\ calls' = [calls EXCEPT ![c].stage = "activate", ![c].who = a]
     ELSE Moves(c, "reread") /\ UNCHANGED account
  /\ UNCHANGED <<sessionVars, disabled, filed, email, historyVars>>

RereadUser(c) ==
  LET a == account[PhoneOf(c)]
  IN  /\ At(c, "reread")
      /\ IF a # NoAccount THEN SignsInAs(c, a) ELSE Ends(c)
      /\ UNCHANGED <<sessionVars, rowVars, historyVars>>

(* The membership is activated (module Memberships) and the token signed;    *)
(* only then is the session deleted and the answer given.                    *)
Activate(c) ==
  /\ At(c, "activate")
  /\ Moves(c, "finish")
  /\ UNCHANGED <<sessionVars, rowVars, historyVars>>

FinishSignIn(c) ==
  /\ At(c, "finish")
  /\ SessionEnded(c)
  /\ granted' = [granted EXCEPT ![PhoneOf(c)] = @ \cup {calls[c].who}]
  /\ Ends(c)
  /\ UNCHANGED <<issued, given, rowVars, wrongs, raced, told, linked>>

(***************************************************************************)
(* Asking for the account to be deleted                                    *)
(***************************************************************************)
EndForDeletion(c) ==
  /\ At(c, "end")
  /\ SessionEnded(c)
  /\ Moves(c, "look")
  /\ UNCHANGED <<issued, given, rowVars, wrongs, raced, granted, told, linked>>

(* A number without an account gets the same answer.                         *)
LookForAccount(c) ==
  LET a == account[PhoneOf(c)]
  IN  /\ At(c, "look")
      /\ IF a = NoAccount
         THEN Ends(c)
         ELSE calls' = [calls EXCEPT ![c].stage = "file", ![c].who = a]
      /\ UNCHANGED <<sessionVars, rowVars, historyVars>>

Existing == {account[p] : p \in Phones} \ {NoAccount}

(* The app files for the account that is signed in.                          *)
AskFromApp(c, a) ==
  /\ Free(c) /\ a \in Existing
  /\ calls' = [calls EXCEPT ![c] =
                 [Resting EXCEPT !.kind = "app", !.stage = "file", !.who = a]]
  /\ UNCHANGED <<sessionVars, rowVars, historyVars>>

(* The insert; a second open request is the same answer.  Requests are       *)
(* numbered from 1.                                                          *)
OpenOf(a) == {q \in filed[a] : q.status = "open"}

FileRequest(c) ==
  LET a == calls[c].who
      source == IF calls[c].kind = "app" THEN "app" ELSE "web"
      new == [n |-> Cardinality(filed[a]) + 1, status |-> "open",
              source |-> source, by |-> NoAccount]
  IN  /\ At(c, "file")
      /\ filed' = IF OpenOf(a) = {} THEN [filed EXCEPT ![a] = @ \cup {new}] ELSE filed
      /\ told' = told \cup {a}
      /\ Ends(c)
      /\ UNCHANGED <<sessionVars, account, disabled, email,
                     wrongs, raced, spent, granted, linked>>

(* A platform admin completes or rejects an open request that is not their   *)
(* own; the update matches nothing else.  Nothing is deleted.                *)
Resolve(admin, a, n, verdict) ==
  /\ admin \in Reviewers \cap Existing /\ admin # a
  /\ \E q \in OpenOf(a) :
       /\ q.n = n
       /\ filed' = [filed EXCEPT ![a] =
                      (@ \ {q}) \cup {[q EXCEPT !.status = verdict, !.by = admin]}]
  /\ UNCHANGED <<sessionVars, account, disabled, email, calls, historyVars>>

(***************************************************************************)
(* Linking an e-mail                                                       *)
(***************************************************************************)

(* The account's e-mail is read: the same one is an answer, another one is   *)
(* refused, and only an empty one is set.                                    *)
BeginLink(c, a, e) ==
  /\ Free(c) /\ a \in Existing
  /\ IF email[a] = {}
     THEN /\ calls' = [calls EXCEPT ![c] =
                         [Resting EXCEPT !.kind = e, !.stage = "link", !.who = a]]
          /\ UNCHANGED linked
     ELSE /\ linked' = [linked EXCEPT ![a] = @ \cup ({e} \cap email[a])]
          /\ UNCHANGED calls
  /\ UNCHANGED <<sessionVars, rowVars, wrongs, raced, spent, granted, told>>

(* The update asks for an e-mail still empty and no other account with it.   *)
SetEmail(c) ==
  LET a == calls[c].who
      e == calls[c].kind
      sets == email[a] = {} /\ \A b \in Accounts : e \notin email[b]
  IN  /\ At(c, "link")
      /\ email' = IF sets THEN [email EXCEPT ![a] = {e}] ELSE email
      /\ linked' = IF sets THEN [linked EXCEPT ![a] = @ \cup {e}] ELSE linked
      /\ Ends(c)
      /\ UNCHANGED <<sessionVars, account, disabled, filed,
                     wrongs, raced, spent, granted, told>>

(***************************************************************************)
(* What goes on around the calls                                           *)
(***************************************************************************)

(* A database fault answers the call with an error where it stands: a        *)
(* sign-in keeps its session, a deletion has already ended it.               *)
DatabaseFails(c) ==
  /\ calls[c].stage \in {"find", "insert", "activate", "look", "file", "link"}
  /\ Ends(c)
  /\ UNCHANGED <<sessionVars, rowVars, historyVars>>

(* The cache drops a session at the end of its time.                         *)
Expire(s) ==
  /\ session[s].live
  /\ session' = [session EXCEPT ![s] = NoSession]
  /\ UNCHANGED <<issued, given, rowVars, calls, historyVars>>

(* The operator disables or enables an account.                              *)
flipFlag(a) ==
  /\ a \in Existing
  /\ disabled' = IF a \in disabled THEN disabled \ {a} ELSE disabled \cup {a}
  /\ UNCHANGED <<sessionVars, account, filed, email, calls, historyVars>>

(* The process is replaced: its sessions and calls are gone.                 *)
SignInRestart ==
  /\ \E c \in Calls : ~Free(c)
  /\ session' = [s \in Sessions |-> NoSession]
  /\ calls' = [c \in Calls |-> Resting]
  /\ UNCHANGED <<issued, given, rowVars, historyVars>>

CodeStep(c) ==
  \/ DeliverCode(c) \/ DiscardCode(c) \/ AnswerWrong(c) \/ AnswerRight(c)
  \/ FindUser(c) \/ InsertUser(c) \/ RereadUser(c) \/ Activate(c) \/ FinishSignIn(c)
  \/ EndForDeletion(c) \/ LookForAccount(c) \/ FileRequest(c) \/ SetEmail(c)
  \/ DatabaseFails(c)

CodeBegins(c) ==
  \/ \E p \in Phones, s \in Sessions : SendCode(c, p, s)
  \/ \E s \in Sessions, kind \in {"login", "deletion"} : CheckCode(c, kind, s)

AccountBegins(c) ==
  \/ \E a \in Accounts : AskFromApp(c, a)
  \/ \E a \in Accounts, e \in Emails : BeginLink(c, a, e)

Around ==
  \/ \E s \in Sessions : Expire(s)
  \/ \E a \in Accounts : flipFlag(a)
  \/ \E admin, a \in Accounts, verdict \in {"completed", "rejected"} :
       \E n \in 1..Cardinality(filed[a]) : Resolve(admin, a, n, verdict)
  \/ SignInRestart

SignInNext ==
  \/ \E c \in Calls : CodeStep(c) \/ CodeBegins(c) \/ AccountBegins(c)
  \/ Around

(* At first some phones have an account, each its own.                       *)
SignInSpec ==
  /\ \E start \in [Phones -> Accounts \cup {NoAccount}] :
       /\ \A p, q \in Phones : p # q /\ start[p] = start[q] => start[p] = NoAccount
       /\ SignInInit(start)
  /\ [][SignInNext]_signInVars

(***************************************************************************)
(* Properties                                                              *)
(***************************************************************************)

(* A session ended by a right answer while no other call was comparing a     *)
(* code against it is over for good: only a wrong answer already under way   *)
(* can write a used session back.                                            *)
SpentSessionsOver == \A s \in Sessions : spent[s] = "alone" => ~session[s].live

(* The lockout counts: beyond the allowed number, a session gives only as    *)
(* many wrong answers as were written under another comparison, and one on   *)
(* which nothing raced is locked by the last of them.                        *)
WrongAnswersBounded ==
  \A s \in Sessions :
    /\ wrongs[s] <= MaxAttempts + raced[s]
    /\ raced[s] = 0 /\ session[s].live =>
         /\ session[s].attempts = wrongs[s]
         /\ session[s].locked <=> wrongs[s] >= MaxAttempts

(* Sign-ins that race for a phone's first user end in the one account, and   *)
(* none of them fails for having lost: the row it reads back is there.       *)
RacersAgree ==
  /\ \A p \in Phones : granted[p] \subseteq {account[p]}
  /\ \A p, q \in Phones : p # q /\ account[p] # NoAccount => account[p] # account[q]
  /\ \A c \in Calls : At(c, "reread") => account[PhoneOf(c)] # NoAccount

(* A person told that the request was received has one, however the answer   *)
(* was reached; at most one is open, and every closed one was closed by      *)
(* somebody else.                                                            *)
RequestsKept ==
  \A a \in Accounts :
    /\ a \in told => filed[a] # {}
    /\ Cardinality(OpenOf(a)) <= 1
    /\ \A q \in filed[a] : (q.status = "open" <=> q.by = NoAccount) /\ q.by # a

(* An account keeps the first e-mail it was told it has, and no two accounts *)
(* were told the same one.                                                   *)
EmailsKept ==
  /\ \A a \in Accounts : linked[a] \subseteq email[a] /\ Cardinality(email[a]) <= 1
  /\ \A a, b \in Accounts : a # b => linked[a] \cap linked[b] = {}

SignInsAccounted ==
  /\ SpentSessionsOver
  /\ WrongAnswersBounded
  /\ RacersAgree
  /\ RequestsKept
  /\ EmailsKept
=============================================================================
