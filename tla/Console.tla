------------------------------ MODULE Console ------------------------------
(***************************************************************************)
(* The management API and its clients: sessions (handler/auth.go,          *)
(* middleware.go, store/session.go), the settings and the triggers of one  *)
(* function (service.Functions, validate, handler/function.go), the tabs   *)
(* of the admin frontend, and scripts that use the same API.               *)
(*                                                                         *)
(* A secret is an entry of env whose key looks secret; its value is the    *)
(* client that typed it, or the mask.  The other settings and the limits   *)
(* on them are one boolean of a request: whether the rest of it is valid.  *)
(* A server that crashes keeps nothing of this in memory: its requests     *)
(* fail.                                                                   *)
(***************************************************************************)
EXTENDS Naturals

CONSTANTS
  Tab, Script,   \* the clients of the API
  Mask,          \* what decorate shows in place of a secret
  None,          \* nothing: no row, form, secret or cron trigger
  Absent,        \* a field that a PATCH leaves out
  Cron,          \* texts of a cron expression
  Trim,          \* external: strings.TrimSpace on them; None is ""
  Fires,         \* external: those that cron/v3 parses, as they are
  TimeoutInput,  \* the timeouts clients type; 0 is also none given
  Lifetime,      \* of a session: 12 hours
  Drift,         \* between the clocks of the server and of the database
  MaxLogins, MaxTime, MaxRequests   \* bounds

Client == Tab \cup Script
Token  == 1 .. MaxLogins    \* in the order idgen draws them; 0 is none
Secret == Client \cup {Mask, None}
Row    == [timeout : Nat, secret : Secret]
Form   == [timeout : Nat, secret : Secret, cron : Cron \cup {None}]
Op     == {"none", "logout", "create", "get", "update", "put", "triggers"}

ASSUME ConsoleAssumption ==
  /\ Tab \cap Script = {} /\ None \notin Client \cup {Mask} \cup Cron \cup Row \cup Form
  /\ Mask \notin Client /\ Absent \notin Nat \cup Secret
  /\ Trim \in [Cron -> Cron \cup {None}] /\ Fires \subseteq Cron
  /\ \A x \in Cron : Trim[x] # None => Trim[Trim[x]] = Trim[x]
  /\ TimeoutInput \subseteq Nat
  /\ Lifetime \in Nat \ {0} /\ Drift \in Nat
  /\ MaxLogins \in Nat /\ MaxTime \in Nat /\ MaxRequests \in Nat

VARIABLES
  now,       \* the clock of the server
  sessions,  \* table sessions: expires_at of each token, or 0
  logins,    \* tokens drawn so far
  promised,  \* history: the expires_at that a login was answered, or 0
  revoked,   \* history: tokens whose row a logout has deleted
  held,      \* the token in the localStorage that the tabs share, or 0
  at, op, tok,  \* the request of each client: its stage, what it asks, its token
  sent,      \* requests begun so far
  row,       \* the row of the function, or None
  copy,      \* the row each Update has read and changed, or None
  cron,      \* the expression of its cron trigger, or None
  cronBy,    \* history: who saved it
  form,      \* the form of the editor in each tab, or None
  shown,     \* history: the secrets that answers have shown
  masked     \* history: a tab has saved a form with the mask in it

auth     == <<sessions, logins, promised, revoked>>
request  == <<at, op, tok>>
settings == <<row, cron, cronBy>>
history  == <<shown, masked>>
vars == <<now, auth, held, request, sent, settings, copy, form, history>>

Init ==
  /\ now = 1 /\ logins = 0 /\ sent = 0 /\ revoked = {}
  /\ sessions = [t \in Token |-> 0] /\ promised = [t \in Token |-> 0]
  /\ held = 0 /\ tok = [c \in Client |-> 0]
  /\ at = [c \in Client |-> "idle"] /\ op = [c \in Client |-> "none"]
  /\ row = None /\ cron = None /\ cronBy = None
  /\ copy = [c \in Client |-> None] /\ form = [c \in Tab |-> None]
  /\ shown = {} /\ masked = FALSE
-----------------------------------------------------------------------------
(* Sessions.                                                               *)

Tick == now < MaxTime /\ now' = now + 1
        /\ UNCHANGED <<auth, held, request, sent, settings, copy, form, history>>

PutSession(t, exp) == sessions' = [sessions EXCEPT ![t] = exp]
DeleteSession(t)   == sessions' = [sessions EXCEPT ![t] = 0]

(* A new token, and a session with it; the client may never see the        *)
(* answer.  The first line of the LET's body is the bound on the clock.    *)
Login(c, answered) ==
  /\ at[c] = "idle" /\ logins < MaxLogins
  /\ LET t == logins + 1  exp == now + Lifetime IN
     /\ exp + Drift < MaxTime
     /\ logins' = t /\ PutSession(t, exp)
     /\ promised' = [promised EXCEPT ![t] = IF answered THEN exp ELSE 0]
     /\ held' = IF answered /\ c \in Tab THEN t ELSE held
  /\ UNCHANGED <<now, revoked, request, sent, settings, copy, form, history>>

(* SweepSessions: NOW() is the clock of the database.                      *)
SweepInclusive(cut) ==
  /\ sessions' = [t \in Token |-> IF sessions[t] <= cut THEN 0 ELSE sessions[t]]
  /\ UNCHANGED <<now, logins, promised, revoked, held, request, sent, settings, copy,
                 form, history>>

SweepNothing(cut) == UNCHANGED vars

Sweep(cut) ==
  /\ sessions' = [t \in Token |-> IF sessions[t] < cut THEN 0 ELSE sessions[t]]
  /\ UNCHANGED <<now, logins, promised, revoked, held, request, sent, settings, copy,
                 form, history>>

(* "Log out" in the frontend forgets the token and calls nothing.          *)
Forget ==
  /\ held # 0 /\ held' = 0
  /\ UNCHANGED <<now, auth, request, sent, settings, copy, form, history>>
-----------------------------------------------------------------------------
(* Requests: on their way, admitted, and in an Update that has read.       *)

Stage(c, stage, o, t) ==
  at' = [at EXCEPT ![c] = stage] /\ op' = [op EXCEPT ![c] = o] /\ tok' = [tok EXCEPT ![c] = t]

Answer(c) == Stage(c, "idle", "none", 0)

(* The answer, on which a tab sends its next request; a script does not.   *)
AnswerThen(c, o) ==
  IF c \in Tab THEN Stage(c, "sent", o, held) ELSE Answer(c)

Serving(c, o) == at[c] = "in" /\ op[c] = o

(* A script may use a token that another client was given.                 *)
Given(c) == IF c \in Tab THEN {held} \ {0} ELSE {t \in Token : promised[t] # 0}

Begin(c, o) ==
  /\ at[c] = "idle" /\ sent < MaxRequests /\ sent' = sent + 1
  /\ \E t \in Given(c) : Stage(c, "sent", o, t)
  /\ UNCHANGED <<now, auth, held, settings, copy, history>>

(* The dashboard creates; the editor loads again after most of its calls.  *)
Asks(c) == IF c \in Script THEN Op \ {"none", "triggers"} ELSE {"create", "get"}

Send(c, o) == o \in Asks(c) /\ Begin(c, o) /\ form' = form

(* The editor is opened ...                                                *)
Open(c) == Begin(c, "get") /\ form' = [form EXCEPT ![c] = None]

(* ... and saves what it has loaded, and what the user has typed since, if *)
(* the timeout is in its range.                                            *)
Save(c) ==
  /\ form[c] # None
  /\ \E t \in TimeoutInput \cup {form[c].timeout}, s \in {None, c, form[c].secret},
        x \in Cron \cup {None} :
       t \in 1 .. 300 /\ form' = [form EXCEPT ![c] = [timeout |-> t, secret |-> s, cron |-> x]]
  /\ Begin(c, "update")

Valid(t) == t # 0 /\ sessions[t] # 0 /\ now <= sessions[t]

(* The middleware: a token without a live row is a 401.                    *)
Check(c) ==
  /\ at[c] = "sent"
  /\ IF Valid(tok[c]) THEN Stage(c, "in", op[c], tok[c]) ELSE Answer(c)
  /\ UNCHANGED <<now, auth, held, sent, settings, copy, form, history>>

(* A statement fails, or the server stops, or the request is lost.         *)
Fail(c) ==
  /\ at[c] # "idle" /\ Answer(c) /\ copy' = [copy EXCEPT ![c] = None]
  /\ UNCHANGED <<now, auth, held, sent, settings, form, history>>

(* Logout deletes the row of the token in the header.  If that fails, or   *)
(* the token came in the query, it changes nothing and answers the same.   *)
Logout(c, deletes) ==
  /\ Serving(c, "logout") /\ Answer(c)
  /\ IF deletes THEN DeleteSession(tok[c]) /\ revoked' = revoked \cup {tok[c]}
     ELSE UNCHANGED <<sessions, revoked>>
  /\ UNCHANGED <<now, logins, promised, held, sent, settings, copy, form, history>>
-----------------------------------------------------------------------------
(* Settings.                                                               *)

Decorated(s) == IF s = None THEN None ELSE Mask
Reveal(s)    == shown' = shown \cup ({Decorated(s)} \ {None})

(* validate.Timeout, and what the agent makes of a timeout it is sent.     *)
Timeout(t) == t \in 1 .. 300
Clamp(t)   == IF t = 0 THEN 30 ELSE IF t > 300 THEN 300 ELSE t

(* What a client puts in the body of a Create or an Update: the dashboard  *)
(* gives neither, the editor what is in its form.                          *)
Creates(c) ==
  IF c \in Tab THEN {[timeout |-> 0, secret |-> None]}
  ELSE [timeout : TimeoutInput, secret : {None, c}]

Patches(c) ==
  IF c \in Tab THEN {[timeout |-> form[c].timeout, secret |-> form[c].secret]}
  ELSE [timeout : TimeoutInput \cup {Absent}, secret : {Absent, None, c}]

CreateInput(t, rest) == Timeout(t) /\ rest

Create(c, rest) ==
  /\ Serving(c, "create") /\ Answer(c)
  /\ \E b \in Creates(c) :
       LET t == IF b.timeout = 0 THEN 30 ELSE b.timeout IN
       IF CreateInput(t, rest) /\ row = None
         THEN row' = [timeout |-> t, secret |-> b.secret] /\ Reveal(b.secret)
         ELSE UNCHANGED <<row, shown>>
  /\ UNCHANGED <<now, auth, held, sent, cron, cronBy, copy, form, masked>>

(* Get, and the first half of the editor's load: the cron expression in    *)
(* the form stays what it was until the triggers are there.                *)
Get(c) ==
  /\ Serving(c, "get")
  /\ IF row = None THEN Answer(c) /\ UNCHANGED <<form, shown>>
     ELSE /\ AnswerThen(c, "triggers") /\ Reveal(row.secret)
          /\ IF c \in Tab
               THEN form' = [form EXCEPT ![c] =
                      [timeout |-> row.timeout, secret |-> Decorated(row.secret),
                       cron |-> IF form[c] = None THEN None ELSE form[c].cron]]
               ELSE form' = form
  /\ UNCHANGED <<now, auth, held, sent, settings, copy, masked>>

(* ListTriggers, and the second half.                                      *)
Triggers(c) ==
  /\ Serving(c, "triggers") /\ Answer(c)
  /\ form' = [form EXCEPT ![c].cron = cron]
  /\ UNCHANGED <<now, auth, held, sent, settings, copy, history>>

PatchedWith(b) == [timeout |-> b.timeout, secret |-> b.secret]

Patched(b) ==
  [timeout |-> IF b.timeout = Absent THEN row.timeout ELSE b.timeout,
   secret  |-> IF b.secret = Absent THEN row.secret ELSE b.secret]

Invalid(b, rest) == ~rest \/ (b.timeout # Absent /\ ~Timeout(b.timeout))

(* Update reads the row, changes its copy, and writes all of it back; the  *)
(* answer is masked after that, and the editor goes on with the triggers.  *)
Update(c, rest) ==
  /\ Serving(c, "update")
  /\ \E b \in Patches(c) :
       IF row = None \/ Invalid(b, rest) THEN Answer(c) /\ UNCHANGED <<copy, masked>>
       ELSE /\ Stage(c, "write", "update", tok[c])
            /\ copy' = [copy EXCEPT ![c] = Patched(b)]
            /\ masked' = (masked \/ (c \in Tab /\ b.secret = Mask))
  /\ UNCHANGED <<now, auth, held, sent, settings, form, shown>>

UpdateAndRenew(c) ==
  /\ at[c] = "write" /\ AnswerThen(c, "put")
  /\ row' = copy[c] /\ Reveal(copy[c].secret) /\ copy' = [copy EXCEPT ![c] = None]
  /\ sessions' = [sessions EXCEPT ![tok[c]] = now + Lifetime]
  /\ UNCHANGED <<now, logins, promised, revoked, held, sent, cron, cronBy, form, masked>>

UpdateUndecorated(c) ==
  /\ at[c] = "write" /\ AnswerThen(c, "put")
  /\ row' = copy[c] /\ copy' = [copy EXCEPT ![c] = None]
  /\ shown' = shown \cup ({copy[c].secret} \ {None})
  /\ UNCHANGED <<now, auth, held, sent, cron, cronBy, form, masked>>

UpdateDecorated(c) ==
  /\ at[c] = "write" /\ AnswerThen(c, "put")
  /\ row' = [copy[c] EXCEPT !.secret = Decorated(@)]
  /\ Reveal(copy[c].secret) /\ copy' = [copy EXCEPT ![c] = None]
  /\ UNCHANGED <<now, auth, held, sent, cron, cronBy, form, masked>>

UpdateFunction(c) ==
  /\ at[c] = "write" /\ AnswerThen(c, "put")
  /\ row' = copy[c] /\ Reveal(copy[c].secret) /\ copy' = [copy EXCEPT ![c] = None]
  /\ UNCHANGED <<now, auth, held, sent, cron, cronBy, form, masked>>

(* ReplaceTriggers: an expression is validated without the blanks around   *)
(* it and stored with them; the editor trims before it sends.              *)
PutsAsTyped(c) == IF c \in Script THEN Cron \cup {None} ELSE {form[c].cron}

Puts(c) ==
  IF c \in Script THEN Cron \cup {None}
  ELSE {IF form[c].cron = None THEN None ELSE Trim[form[c].cron]}

CronExpr(x) == Trim[x] \in Fires

ValidTriggers(x, rest) == rest /\ (x # None => CronExpr(x))

ReplaceTriggers(c, rest) ==
  /\ Serving(c, "put")
  /\ \E x \in Puts(c) :
       IF ValidTriggers(x, rest) /\ row # None
         THEN AnswerThen(c, "get") /\ cron' = x /\ cronBy' = IF x = None THEN None ELSE c
         ELSE Answer(c) /\ UNCHANGED <<cron, cronBy>>
  /\ UNCHANGED <<now, auth, held, sent, row, copy, form, history>>
-----------------------------------------------------------------------------
Session(c) ==
  \/ \E answered \in BOOLEAN : Login(c, answered)
  \/ Check(c) \/ Fail(c)
  \/ \E o \in Op : Send(c, o)
  \/ \E deletes \in BOOLEAN : Logout(c, deletes)

Setting(c) ==
  \/ \E rest \in BOOLEAN : Create(c, rest) \/ Update(c, rest) \/ ReplaceTriggers(c, rest)
  \/ Get(c) \/ UpdateFunction(c)

SweepSome == \E cut \in 0 .. now + Drift : now <= cut + Drift /\ Sweep(cut)

Next ==
  \/ Tick \/ SweepSome \/ Forget
  \/ \E c \in Client : Session(c) \/ Setting(c)
  \/ \E c \in Tab : Open(c) \/ Save(c) \/ Triggers(c)

Spec == Init /\ [][Next]_vars

(* Time passes, and the goroutine of main.go sweeps every ten minutes; a   *)
(* sweep that fails is made up for by the next.                            *)
FairSpec == Spec /\ WF_vars(Tick) /\ WF_vars(SweepSome)
-----------------------------------------------------------------------------
Label == {"idle", "sent", "in", "write"}

(* Types, and what ties the parts of a request together: an Update that    *)
(* has read, and only that, holds a row; a tab works on a form it loaded.  *)
(* The timeout in the row is one that the agent takes as it is, so that    *)
(* the row, the invoker and the agent agree on the deadline.               *)
ConsoleTypeOK ==
  /\ now \in Nat /\ logins \in 0 .. MaxLogins /\ sent \in Nat
  /\ sessions \in [Token -> Nat] /\ promised \in [Token -> Nat] /\ revoked \subseteq Token
  /\ held \in Token \cup {0} /\ tok \in [Client -> Token \cup {0}]
  /\ at \in [Client -> Label] /\ op \in [Client -> Op]
  /\ row \in Row \cup {None} /\ copy \in [Client -> Row \cup {None}]
  /\ row # None => Clamp(row.timeout) = row.timeout
  /\ cron \in Cron \cup {None} /\ cronBy \in Client \cup {None}
  /\ form \in [Tab -> Form \cup {None}]
  /\ shown \subseteq Client \cup {Mask} /\ masked \in BOOLEAN
  /\ \A c \in Client : at[c] = "write" <=> copy[c] # None
  /\ \A c \in Tab : op[c] \in {"update", "put", "triggers"} => form[c] # None

(* A token whose row a logout has deleted never gets a session again,      *)
(* whatever was in flight with it (PutSession is an upsert).               *)
LogoutIsFinal == \A t \in revoked : sessions[t] = 0

(* A session that was promised until some time, and not ended by a logout, *)
(* is there until then, but for the distance of the two clocks: neither a  *)
(* sweep nor anything else ends it early.                                  *)
SessionsLast ==
  \A t \in Token : (promised[t] # 0 /\ t \notin revoked /\ now + Drift <= promised[t])
    => sessions[t] = promised[t]

(* The table does not grow for ever: every session goes, also one whose    *)
(* login was never answered or that the frontend has only forgotten.       *)
SessionsEnd == \A t \in Token : (sessions[t] # 0) ~> (sessions[t] = 0)

(* No answer shows a secret, neither its author's nor another client's.    *)
SecretsHidden == shown \subseteq {Mask}

(* The mask replaces a secret only through a form that was loaded and      *)
(* saved with the mask in it (which the editor does: what is then stored,  *)
(* and handed to the function, is the mask).                               *)
MaskComesFromForms == (row # None /\ row.secret = Mask) => masked

(* A stored expression fires once trimmed, and as it is if the editor      *)
(* saved it.  The scheduler does not trim: it passes over what a script    *)
(* stored with blanks around a descriptor, and says nothing.               *)
StoredCronFires ==
  cron # None => /\ Trim[cron] \in Fires
                 /\ cronBy \in Tab => cron \in Fires
=============================================================================
