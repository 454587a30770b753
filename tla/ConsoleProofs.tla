--------------------------- MODULE ConsoleProofs ---------------------------
(***************************************************************************)
(* Proofs about Console.  The invariant has three parts that different     *)
(* actions disturb: the sessions, the requests and the settings; each is   *)
(* proved from what a step can do to its own variables.                    *)
(***************************************************************************)
EXTENDS Console, TLAPS

(* Tokens in use have been drawn.                                          *)
Drawn ==
  /\ held <= logins /\ \A c \in Client : tok[c] <= logins
  /\ \A t \in revoked : t <= logins
  /\ \A t \in Token : t > logins => promised[t] = 0

SessionTypes ==
  /\ now \in Nat /\ logins \in 0 .. MaxLogins
  /\ sessions \in [Token -> Nat] /\ promised \in [Token -> Nat] /\ revoked \subseteq Token
  /\ held \in Token \cup {0}

RequestTypes ==
  /\ sent \in Nat /\ tok \in [Client -> Token \cup {0}]
  /\ at \in [Client -> Label] /\ op \in [Client -> Op]

(* A request that is served has a token, and only an Update reads first.   *)
Admitted ==
  \A c \in Client : (at[c] = "in" => tok[c] # 0) /\ (at[c] = "write" => op[c] = "update")

SettingTypes ==
  /\ row \in Row \cup {None} /\ copy \in [Client -> Row \cup {None}]
  /\ cron \in Cron \cup {None} /\ cronBy \in Client \cup {None}
  /\ form \in [Tab -> Form \cup {None}]
  /\ shown \subseteq Client \cup {Mask} /\ masked \in BOOLEAN

Tied ==
  /\ \A c \in Client : at[c] = "write" <=> copy[c] # None
  /\ \A c \in Tab : op[c] \in {"update", "put", "triggers"} => form[c] # None

(* What holds of the row holds of the copies that will replace it.         *)
Good(r) == Clamp(r.timeout) = r.timeout /\ (r.secret = Mask => masked)

Copies == (row # None => Good(row)) /\ \A c \in Client : copy[c] # None => Good(copy[c])

SessionInv == SessionTypes /\ Drawn /\ LogoutIsFinal /\ SessionsLast
RequestInv == RequestTypes /\ Admitted
SettingInv == SettingTypes /\ Copies /\ SecretsHidden /\ StoredCronFires
ConsoleInv == SessionInv /\ RequestInv /\ SettingInv /\ Tied

LEMMA TypesAgree ==
  ConsoleTypeOK <=> /\ SessionTypes /\ RequestTypes /\ SettingTypes /\ Tied
                    /\ row # None => Clamp(row.timeout) = row.timeout
BY Zenon DEF ConsoleTypeOK, SessionTypes, RequestTypes, SettingTypes, Tied
-----------------------------------------------------------------------------
(* What a step does to the sessions.                                       *)
LEMMA SessionSteps ==
  ASSUME [Next]_vars
  PROVE  \/ UNCHANGED <<now, auth, held>>
         \/ Tick \/ SweepSome \/ Forget
         \/ \E c \in Client, answered \in BOOLEAN : Login(c, answered)
         \/ \E c \in Client, deletes \in BOOLEAN : Logout(c, deletes)
<1>1. CASE UNCHANGED vars  BY <1>1, Zenon DEF vars, auth
<1>2. ASSUME NEW c \in Client, Session(c)
      PROVE  \/ UNCHANGED <<now, auth, held>>
             \/ \E answered \in BOOLEAN : Login(c, answered)
             \/ \E deletes \in BOOLEAN : Logout(c, deletes)
  BY <1>2, Zenon DEF Session, Check, Fail, Send, Begin
<1>3. ASSUME NEW c \in Client, Setting(c)  PROVE UNCHANGED <<now, auth, held>>
  BY <1>3, Zenon DEF Setting, Create, Update, ReplaceTriggers, Get, UpdateFunction
<1>4. ASSUME NEW c \in Tab, Open(c) \/ Save(c) \/ Triggers(c)  PROVE UNCHANGED <<now, auth, held>>
  BY <1>4, Zenon DEF Open, Save, Begin, Triggers
<1>. QED  BY <1>1, <1>2, <1>3, <1>4, Zenon DEF Next

LEMMA ServedToken ==
  ASSUME SessionInv, RequestInv, NEW c \in Client, at[c] = "in"
  PROVE  tok[c] \in Token /\ tok[c] \in Nat
BY DEF RequestInv, RequestTypes, Admitted, Token, SessionInv, SessionTypes

(* tok is not theirs to type, but a login makes room for more.             *)
Undrawn == held <= logins /\ (\A t \in revoked : t <= logins)
           /\ \A t \in Token : t > logins => promised[t] = 0

LEMMA SessionsKept ==
  ASSUME SessionInv, RequestInv, [Next]_vars
  PROVE  (SessionTypes /\ Undrawn /\ LogoutIsFinal /\ SessionsLast)'
<1>. USE ConsoleAssumption
<1>0. SessionTypes /\ Undrawn /\ LogoutIsFinal /\ SessionsLast
  BY Zenon DEF SessionInv, Drawn, Undrawn
<1>1. CASE UNCHANGED <<now, auth, held>>
  BY <1>0, <1>1, Zenon DEF auth, SessionTypes, Undrawn, LogoutIsFinal, SessionsLast
<1>2. CASE Tick
  BY <1>0, <1>2, SMT DEF Tick, auth, SessionTypes, Undrawn, LogoutIsFinal, SessionsLast, Token
<1>3. CASE SweepSome
  BY <1>0, <1>3, SMT DEF SweepSome, Sweep, SessionTypes, Undrawn, LogoutIsFinal, SessionsLast, Token
<1>4. CASE Forget
  BY <1>0, <1>4, SMT DEF Forget, auth, SessionTypes, Undrawn, LogoutIsFinal, SessionsLast, Token
<1>5. ASSUME NEW c \in Client, NEW answered \in BOOLEAN, Login(c, answered)
      PROVE  (SessionTypes /\ Undrawn /\ LogoutIsFinal /\ SessionsLast)'
  <2>. DEFINE t == logins + 1
  <2>1. t \in Token /\ now + Lifetime \in Nat
    BY <1>0, <1>5, SMT DEF Login, PutSession, SessionTypes, Token
  <2>2. SessionTypes'
    BY <1>0, <1>5, <2>1, SMT DEF Login, PutSession, SessionTypes, Token
  <2>3. Undrawn'
    BY <1>0, <1>5, <2>1, SMT DEF Login, PutSession, SessionTypes, Undrawn, Token
  <2>4. LogoutIsFinal'
    BY <1>0, <1>5, <2>1, SMT DEF Login, PutSession, SessionTypes, Undrawn, LogoutIsFinal, Token
  <2>5. SessionsLast'
    BY <1>0, <1>5, <2>1, SMT DEF Login, PutSession, SessionTypes, SessionsLast, Token
  <2>. QED  BY <2>2, <2>3, <2>4, <2>5
<1>6. ASSUME NEW c \in Client, NEW deletes \in BOOLEAN, Logout(c, deletes)
      PROVE  (SessionTypes /\ Undrawn /\ LogoutIsFinal /\ SessionsLast)'
  <2>1. tok[c] \in Token /\ tok[c] <= logins
    BY <1>6, ServedToken, Zenon DEF Logout, Serving, SessionInv, Drawn
  <2>2. UNCHANGED <<now, logins, promised, held>>
    BY <1>6, Zenon DEF Logout
  <2>3. CASE UNCHANGED <<sessions, revoked>>
    BY <1>0, <2>2, <2>3, Zenon DEF SessionTypes, Undrawn, LogoutIsFinal, SessionsLast
  <2>4. ASSUME NEW k \in Token, k <= logins,
               sessions' = [sessions EXCEPT ![k] = 0], revoked' = revoked \cup {k}
        PROVE  (SessionTypes /\ Undrawn /\ LogoutIsFinal /\ SessionsLast)'
    <3>1. SessionTypes'
      BY <1>0, <2>2, <2>4, SMT DEF SessionTypes, Token
    <3>2. Undrawn'
      BY <1>0, <2>2, <2>4, SMT DEF SessionTypes, Undrawn, Token
    <3>3. LogoutIsFinal' /\ SessionsLast'
      BY <1>0, <2>2, <2>4, SMT DEF SessionTypes, LogoutIsFinal, SessionsLast, Token
    <3>. QED  BY <3>1, <3>2, <3>3
  <2>. QED  BY <1>6, <2>1, <2>3, <2>4, Zenon DEF Logout, DeleteSession
<1>. QED  BY SessionSteps, <1>1, <1>2, <1>3, <1>4, <1>5, <1>6, Zenon
-----------------------------------------------------------------------------
(* What a step does to the requests: Stage, of one client.                 *)
Stages(c) ==
  \E stage \in Label, o \in Op, t \in Token \cup {0} :
    /\ Stage(c, stage, o, t)
    /\ t <= logins
    /\ stage = "in" => t # 0
    /\ stage = "write" => o = "update"

LEMMA RequestSteps ==
  ASSUME SessionInv, RequestInv, [Next]_vars
  PROVE  UNCHANGED request \/ \E c \in Client : Stages(c)
<1>. USE ConsoleAssumption
<1>1. /\ held \in Token \cup {0} /\ held <= logins /\ 0 <= logins
      /\ \A c \in Client : tok[c] \in Token \cup {0} /\ tok[c] <= logins /\ op[c] \in Op
      /\ \A t \in Token : promised[t] # 0 => t <= logins
  BY SMT DEF SessionInv, SessionTypes, Drawn, RequestInv, RequestTypes, Token
<1>2. CASE UNCHANGED vars  BY <1>2, Zenon DEF vars, request
<1>3. ASSUME NEW c \in Client, Answer(c)  PROVE Stages(c)
  BY <1>1, <1>3, Zenon DEF Answer, Stages, Label, Op
<1>4. ASSUME NEW c \in Client, NEW o \in {"put", "triggers", "get"}, AnswerThen(c, o)
      PROVE  Stages(c)
  <2>1. o \in Op  BY Zenon DEF Op
  <2>2. CASE c \in Tab
    BY <1>1, <1>4, <2>1, <2>2, Zenon DEF AnswerThen, Stages, Label
  <2>. QED  BY <1>3, <1>4, <2>2, Zenon DEF AnswerThen
<1>5. ASSUME NEW c \in Client, NEW o \in Op, Begin(c, o)  PROVE Stages(c)
  <2>1. PICK t \in Given(c) : Stage(c, "sent", o, t)
    BY <1>5, Zenon DEF Begin
  <2>2. t \in Token \cup {0} /\ t <= logins
    BY <1>1, Zenon DEF Given
  <2>. QED  BY <2>1, <2>2, Zenon DEF Stages, Label
<1>6. ASSUME NEW c \in Client, Session(c)  PROVE UNCHANGED request \/ Stages(c)
  <2>1. CASE \E answered \in BOOLEAN : Login(c, answered)  BY <2>1, Zenon DEF Login
  <2>2. CASE Check(c)
    BY <1>1, <1>3, <2>2, Zenon DEF Check, Valid, Stages, Label
  <2>3. CASE Fail(c)  BY <1>3, <2>3, Zenon DEF Fail
  <2>4. CASE \E o \in Op : Send(c, o)  BY <1>5, <2>4, Zenon DEF Send
  <2>5. CASE \E deletes \in BOOLEAN : Logout(c, deletes)  BY <1>3, <2>5, Zenon DEF Logout
  <2>. QED  BY <1>6, <2>1, <2>2, <2>3, <2>4, <2>5, Zenon DEF Session
<1>7. ASSUME NEW c \in Client, Setting(c)  PROVE Stages(c)
  <2>1. CASE \E rest \in BOOLEAN : Create(c, rest)  BY <1>3, <2>1, Zenon DEF Create
  <2>2. CASE \E rest \in BOOLEAN : Update(c, rest)
    BY <1>1, <1>3, <2>2, Zenon DEF Update, Stages, Label, Op
  <2>3. CASE \E rest \in BOOLEAN : ReplaceTriggers(c, rest)
    BY <1>3, <1>4, <2>3, Zenon DEF ReplaceTriggers
  <2>4. CASE Get(c)  BY <1>3, <1>4, <2>4, Zenon DEF Get
  <2>5. CASE UpdateFunction(c)  BY <1>4, <2>5, Zenon DEF UpdateFunction
  <2>. QED  BY <1>7, <2>1, <2>2, <2>3, <2>4, <2>5, Zenon DEF Setting
<1>8. ASSUME NEW c \in Tab, Open(c) \/ Save(c) \/ Triggers(c)  PROVE Stages(c)
  BY <1>3, <1>5, <1>8, Zenon DEF Open, Save, Triggers, Client, Op
<1>9. CASE Tick \/ SweepSome \/ Forget
  BY <1>9, Zenon DEF Tick, SweepSome, Sweep, Forget
<1>. QED  BY <1>2, <1>6, <1>7, <1>8, <1>9, Zenon DEF Next, Client

(* sent only counts.                                                       *)
LEMMA SentCounts == ASSUME sent \in Nat, [Next]_vars  PROVE sent' \in Nat
<1>. SUFFICES sent' = sent \/ sent' = sent + 1  BY SMT
<1>1. ASSUME NEW c \in Client, Session(c) \/ Setting(c)  PROVE sent' = sent \/ sent' = sent + 1
  BY <1>1, Zenon DEF Session, Setting, Login, Check, Fail, Send, Begin, Logout, Create, Update,
                     ReplaceTriggers, Get, UpdateFunction
<1>2. ASSUME NEW c \in Tab, Open(c) \/ Save(c) \/ Triggers(c)
      PROVE  sent' = sent \/ sent' = sent + 1
  BY <1>2, Zenon DEF Open, Save, Begin, Triggers
<1>3. CASE Tick \/ SweepSome \/ Forget
  BY <1>3, Zenon DEF Tick, SweepSome, Sweep, Forget
<1>4. CASE UNCHANGED vars  BY <1>4, Zenon DEF vars
<1>. QED  BY <1>1, <1>2, <1>3, <1>4, Zenon DEF Next

LEMMA RequestsKept ==
  ASSUME SessionInv, RequestInv, [Next]_vars
  PROVE  RequestInv' /\ \A c \in Client : tok'[c] <= logins'
<1>1. sent' \in Nat  BY SentCounts DEF RequestInv, RequestTypes
<1>2. RequestTypes /\ Admitted /\ \A c \in Client : tok[c] <= logins
  BY Zenon DEF RequestInv, SessionInv, Drawn
<1>3. logins \in Nat /\ logins' \in Nat /\ logins <= logins'
  <2>1. logins' = logins \/ logins' = logins + 1
    BY SessionSteps, Zenon DEF auth, Tick, SweepSome, Sweep, Forget, Login, Logout
  <2>. QED  BY <2>1, ConsoleAssumption, SMT DEF SessionInv, SessionTypes
<1>4. RequestTypes' /\ Admitted' /\ \A c \in Client : tok'[c] <= logins
  <2>1. CASE UNCHANGED request
    BY <1>1, <1>2, <2>1, Zenon DEF request, RequestTypes, Admitted
  <2>2. ASSUME NEW c \in Client, Stages(c)
        PROVE  RequestTypes' /\ Admitted' /\ \A d \in Client : tok'[d] <= logins
    BY <1>1, <1>2, <2>2, SMT DEF Stages, Stage, RequestTypes, Admitted
  <2>. QED  BY RequestSteps, <2>1, <2>2, Zenon
<1>5. ASSUME NEW c \in Client  PROVE tok'[c] <= logins'
  BY <1>3, <1>4, <1>5, ConsoleAssumption, SMT DEF RequestTypes, Token
<1>. QED  BY <1>4, <1>5, Zenon DEF RequestInv
-----------------------------------------------------------------------------
(* What a step does to the settings.                                       *)
LEMMA SettingSteps ==
  ASSUME [Next]_vars
  PROVE  \/ UNCHANGED <<settings, copy, form, history>>
         \/ \E c \in Client, rest \in BOOLEAN :
              Create(c, rest) \/ Update(c, rest) \/ ReplaceTriggers(c, rest)
         \/ \E c \in Client : Fail(c) \/ Get(c) \/ UpdateFunction(c)
         \/ \E c \in Tab : Open(c) \/ Save(c) \/ Triggers(c)
<1>1. CASE UNCHANGED vars  BY <1>1, Zenon DEF vars
<1>2. CASE Tick \/ SweepSome \/ Forget
  BY <1>2, Zenon DEF Tick, SweepSome, Sweep, Forget
<1>3. ASSUME NEW c \in Client, Session(c)
      PROVE  UNCHANGED <<settings, copy, form, history>> \/ Fail(c)
  BY <1>3, Zenon DEF Session, Login, Check, Send, Begin, Logout
<1>. QED  BY <1>1, <1>2, <1>3, Zenon DEF Next, Setting

LEMMA TrimmedOnce ==
  ASSUME NEW x \in Cron \cup {None}, NEW y, y = (IF x = None THEN None ELSE Trim[x]),
         y # None => CronExpr(y)
  PROVE  y # None => y \in Fires
<1>1. None \notin Cron  BY ConsoleAssumption
<1>2. CASE x = None  BY <1>2
<1>3. CASE x \in Cron  BY <1>1, <1>3, ConsoleAssumption, Zenon DEF CronExpr
<1>. QED  BY <1>2, <1>3

LEMMA RowFields ==
  /\ None \notin Row
  /\ \A r \in Row : r.timeout \in Nat /\ r.secret \in Secret
  /\ \A t \in Nat, s \in Secret :
       LET r == [timeout |-> t, secret |-> s]
       IN  r \in Row /\ r.timeout = t /\ r.secret = s
  /\ \A t \in Nat : Timeout(t) => Clamp(t) = t
<1>1. None \notin Row  BY ConsoleAssumption
<1>2. \A t \in Nat : Timeout(t) => Clamp(t) = t  BY SMT DEF Timeout, Clamp
<1>. QED  BY <1>1, <1>2, SMT DEF Row

(* A body of a script does not hold the mask, one of the dashboard has no  *)
(* secret, and one of the editor what is in its form.                      *)
LEMMA Bodies ==
  ASSUME NEW c \in Client, SettingTypes, Tied
  PROVE  /\ \A b \in Creates(c) :
              b.timeout \in Nat /\ b.secret \in Secret /\ b.secret # Mask
         /\ op[c] = "update" => \A b \in Patches(c) :
              /\ b.timeout \in Nat \cup {Absent} /\ b.secret \in Secret \cup {Absent}
              /\ c \notin Tab => b.secret # Mask
<1>. USE ConsoleAssumption
<1>1. Mask # None /\ Mask # Absent /\ Mask # c /\ c \in Secret /\ None \in Secret
  BY Zenon DEF Secret
<1>2. CASE c \notin Tab
  <2>1. c \in Script  BY <1>2 DEF Client
  <2>2. Creates(c) = [timeout : TimeoutInput, secret : {None, c}]
    BY <1>2, Zenon DEF Creates
  <2>3. Patches(c) = [timeout : TimeoutInput \cup {Absent}, secret : {Absent, None, c}]
    BY <2>1, <1>2, Zenon DEF Patches, Client
  <2>4. ASSUME NEW b \in Creates(c)  PROVE b.timeout \in TimeoutInput /\ b.secret \in {None, c}
    BY <2>2, <2>4, SMT
  <2>5. ASSUME NEW b \in Patches(c)
        PROVE  b.timeout \in TimeoutInput \cup {Absent} /\ b.secret \in {Absent, None, c}
    BY <2>3, <2>5, SMT
  <2>. QED  BY <1>1, <1>2, <2>4, <2>5, Zenon
<1>3. CASE c \in Tab
  <2>1. Creates(c) = {[timeout |-> 0, secret |-> None]}
    BY <1>3, Zenon DEF Creates
  <2>2. op[c] = "update" => form[c] \in Form
    BY <1>3, Zenon DEF SettingTypes, Tied
  <2>3. op[c] = "update" => form[c].timeout \in Nat /\ form[c].secret \in Secret
    BY <2>2, SMT DEF Form
  <2>4. Patches(c) = {[timeout |-> form[c].timeout, secret |-> form[c].secret]}
    BY <1>3, Zenon DEF Patches
  <2>. QED  BY <1>1, <1>3, <2>1, <2>3, <2>4, SMT
<1>. QED  BY <1>2, <1>3

LEMMA RevealHides ==
  ASSUME SettingTypes, SecretsHidden, NEW s, Reveal(s)
  PROVE  SecretsHidden' /\ shown' \subseteq Client \cup {Mask}
BY Zenon DEF SecretsHidden, Reveal, Decorated

LEMMA CreateKeeps ==
  ASSUME SettingInv, Tied, NEW c \in Client, NEW rest \in BOOLEAN, Create(c, rest)
  PROVE  SettingInv'
<1>0. SettingTypes /\ Copies /\ SecretsHidden /\ StoredCronFires  BY DEF SettingInv
<1>1. UNCHANGED <<cron, cronBy, copy, form, masked>>  BY Zenon DEF Create
<1>2. CASE UNCHANGED <<row, shown>>
  BY <1>0, <1>1, <1>2, Zenon DEF SettingInv, SettingTypes, Copies, Good, SecretsHidden,
                                 StoredCronFires
<1>3. ASSUME NEW b \in Creates(c), NEW t, t = (IF b.timeout = 0 THEN 30 ELSE b.timeout),
             Timeout(t), row' = [timeout |-> t, secret |-> b.secret], Reveal(b.secret)
      PROVE  SettingInv'
  <2>1. b.timeout \in Nat /\ b.secret \in Secret /\ b.secret # Mask
    BY <1>0, Bodies, Zenon
  <2>2. t \in Nat  BY <1>3, <2>1, SMT
  <2>3. row' \in Row /\ Clamp(row'.timeout) = row'.timeout /\ row'.secret # Mask
    BY <1>3, <2>1, <2>2, RowFields, Zenon
  <2>4. SettingTypes' /\ SecretsHidden'
    BY <1>0, <1>1, <1>3, <2>3, RevealHides, Zenon DEF SettingTypes
  <2>5. Copies' /\ StoredCronFires'
    BY <1>0, <1>1, <2>3, Zenon DEF Copies, Good, StoredCronFires
  <2>. QED  BY <2>4, <2>5 DEF SettingInv
<1>. QED  BY <1>2, <1>3, Zenon DEF Create, CreateInput

LEMMA PatchedRow ==
  ASSUME SettingTypes, Tied, NEW c \in Client, op[c] = "update", NEW b \in Patches(c), row # None
  PROVE  Patched(b) \in Row
<1>1. b.timeout \in Nat \cup {Absent} /\ b.secret \in Secret \cup {Absent}
  BY Bodies, Zenon
<1>2. row.timeout \in Nat /\ row.secret \in Secret  BY RowFields, Zenon DEF SettingTypes
<1>. QED  BY <1>1, <1>2, RowFields, Zenon DEF Patched

LEMMA UpdateKeeps ==
  ASSUME SettingInv, Tied, NEW c \in Client, NEW rest \in BOOLEAN, Update(c, rest)
  PROVE  SettingInv'
<1>0. SettingTypes /\ Copies /\ SecretsHidden /\ StoredCronFires  BY DEF SettingInv
<1>1. UNCHANGED <<settings, form, shown>> /\ op[c] = "update"  BY Zenon DEF Update, Serving
<1>2. CASE UNCHANGED <<copy, masked>>
  BY <1>0, <1>1, <1>2, Zenon DEF SettingInv, SettingTypes, Copies, Good, SecretsHidden,
                                 StoredCronFires, settings
<1>3. ASSUME NEW b \in Patches(c), row # None, ~Invalid(b, rest),
             copy' = [copy EXCEPT ![c] = Patched(b)],
             masked' = (masked \/ (c \in Tab /\ b.secret = Mask))
      PROVE  SettingInv'
  <2>1. /\ b.timeout \in Nat \cup {Absent} /\ b.secret \in Secret \cup {Absent}
        /\ c \notin Tab => b.secret # Mask
    BY <1>0, <1>1, Bodies, Zenon
  <2>2. row \in Row /\ Good(row)  BY <1>0, <1>3, Zenon DEF SettingTypes, Copies
  <2>. DEFINE t == IF b.timeout = Absent THEN row.timeout ELSE b.timeout
              s == IF b.secret = Absent THEN row.secret ELSE b.secret
  <2>3. t \in Nat /\ Clamp(t) = t
    BY <1>3, <2>1, <2>2, RowFields, Zenon DEF Good, Invalid
  <2>4. s \in Secret /\ (s = Mask => masked')
    BY <1>3, <2>1, <2>2, RowFields, Zenon DEF Good
  <2>5. Patched(b) \in Row /\ Clamp(Patched(b).timeout) = Patched(b).timeout
        /\ (Patched(b).secret = Mask => masked')
    BY <2>3, <2>4, RowFields, Zenon DEF Patched
  <2>6. SettingTypes'
    BY <1>0, <1>1, <1>3, <2>5, Zenon DEF SettingTypes, settings
  <2>7. masked => masked'  BY <1>3, Zenon
  <2>8. Copies'
    BY <1>0, <1>1, <1>3, <2>5, <2>7, Zenon DEF SettingTypes, Copies, Good, settings
  <2>9. SecretsHidden' /\ StoredCronFires'
    BY <1>0, <1>1, Zenon DEF SecretsHidden, StoredCronFires, settings
  <2>. QED  BY <2>6, <2>8, <2>9 DEF SettingInv
<1>. QED  BY <1>2, <1>3, Zenon DEF Update

LEMMA ReplaceTriggersKeeps ==
  ASSUME SettingInv, Tied, NEW c \in Client, NEW rest \in BOOLEAN, ReplaceTriggers(c, rest)
  PROVE  SettingInv'
<1>0. SettingTypes /\ Copies /\ SecretsHidden /\ StoredCronFires  BY DEF SettingInv
<1>1. UNCHANGED <<row, copy, form, history>> /\ op[c] = "put"
  BY Zenon DEF ReplaceTriggers, Serving
<1>2. Copies' /\ SecretsHidden'
  BY <1>0, <1>1, Zenon DEF Copies, Good, SecretsHidden, history
<1>3. CASE UNCHANGED <<cron, cronBy>>
  BY <1>0, <1>1, <1>2, <1>3, Zenon DEF SettingInv, SettingTypes, StoredCronFires, history
<1>4. ASSUME NEW x \in Puts(c), x # None => CronExpr(x), cron' = x,
             cronBy' = IF x = None THEN None ELSE c
      PROVE  SettingInv'
  <2>1. CASE c \in Tab
    <3>1. form[c] \in Form  BY <1>0, <1>1, <2>1, Zenon DEF SettingTypes, Tied
    <3>2. form[c].cron \in Cron \cup {None}  BY <3>1, SMT DEF Form
    <3>3. x = IF form[c].cron = None THEN None ELSE Trim[form[c].cron]
      BY <1>4, <2>1, ConsoleAssumption, Zenon DEF Puts
    <3>4. x # None => x \in Fires  BY <1>4, <3>2, <3>3, TrimmedOnce, Zenon
    <3>. QED
      BY <1>0, <1>1, <1>2, <1>4, <2>1, <3>4, ConsoleAssumption, Zenon
      DEF SettingInv, SettingTypes, StoredCronFires, CronExpr, history
  <2>2. CASE c \notin Tab
    <3>1. x \in Cron \cup {None}  BY <1>4, <2>2, Zenon DEF Puts, Client
    <3>. QED
      BY <1>0, <1>1, <1>2, <1>4, <2>2, <3>1, Zenon
      DEF SettingInv, SettingTypes, StoredCronFires, CronExpr, history
  <2>. QED  BY <2>1, <2>2
<1>. QED  BY <1>3, <1>4, Zenon DEF ReplaceTriggers, ValidTriggers

LEMMA UpdateFunctionKeeps ==
  ASSUME SettingInv, Tied, NEW c \in Client, UpdateFunction(c)
  PROVE  SettingInv'
<1>0. SettingTypes /\ Copies /\ SecretsHidden /\ StoredCronFires  BY DEF SettingInv
<1>1. /\ UNCHANGED <<cron, cronBy, form, masked>> /\ row' = copy[c]
      /\ Reveal(copy[c].secret) /\ copy' = [copy EXCEPT ![c] = None]
  BY Zenon DEF UpdateFunction
<1>2. copy[c] \in Row /\ Good(copy[c])
  BY Zenon, <1>0 DEF UpdateFunction, Tied, Copies, SettingTypes
<1>3. SettingTypes' /\ SecretsHidden'
  BY <1>0, <1>1, <1>2, RevealHides, Zenon DEF SettingTypes
<1>4. Copies' /\ StoredCronFires'
  BY <1>0, <1>1, <1>2, Zenon DEF SettingTypes, Copies, Good, StoredCronFires
<1>. QED  BY <1>3, <1>4 DEF SettingInv

(* A form that is loaded or saved is one.                                  *)
LEMMA GetForms ==
  ASSUME SettingTypes, NEW c \in Tab, Get(c), row # None
  PROVE  \E f \in Form : form' = [form EXCEPT ![c] = f]
<1>. DEFINE x == IF form[c] = None THEN None ELSE form[c].cron
            f == [timeout |-> row.timeout, secret |-> Decorated(row.secret), cron |-> x]
<1>1. row.timeout \in Nat /\ row.secret \in Secret
  BY RowFields, Zenon DEF SettingTypes
<1>2. Decorated(row.secret) \in Secret  BY Zenon DEF Decorated, Secret
<1>3. form[c] \in Form \cup {None}  BY Zenon DEF SettingTypes
<1>4. x \in Cron \cup {None}  BY <1>3, SMT DEF Form
<1>5. f \in Form  BY <1>1, <1>2, <1>4, SMT DEF Form
<1>6. form' = [form EXCEPT ![c] = f]  BY Zenon DEF Get
<1>. QED  BY <1>5, <1>6

LEMMA SaveForms ==
  ASSUME SettingTypes, NEW c \in Tab, Save(c)
  PROVE  \E f \in Form : form' = [form EXCEPT ![c] = f]
<1>1. form[c] \in Form  BY Zenon DEF SettingTypes, Save
<1>2. form[c].timeout \in Nat /\ form[c].secret \in Secret  BY <1>1, SMT DEF Form
<1>3. PICK t \in TimeoutInput \cup {form[c].timeout}, s \in {None, c, form[c].secret},
           x \in Cron \cup {None} :
        form' = [form EXCEPT ![c] = [timeout |-> t, secret |-> s, cron |-> x]]
  BY Zenon DEF Save
<1>4. t \in Nat  BY <1>2, ConsoleAssumption, Zenon
<1>5. s \in Secret  BY <1>2, Zenon DEF Secret, Client
<1>6. [timeout |-> t, secret |-> s, cron |-> x] \in Form  BY <1>4, <1>5, SMT DEF Form
<1>. QED  BY <1>3, <1>6

LEMMA TriggersForms ==
  ASSUME SettingTypes, Tied, NEW c \in Tab, Triggers(c)
  PROVE  \E f \in Form : form' = [form EXCEPT ![c] = f]
<1>1. form[c] \in Form  BY Zenon DEF SettingTypes, Tied, Triggers, Serving
<1>2. form' = [form EXCEPT ![c] = [form[c] EXCEPT !.cron = cron]]
  BY Zenon DEF Triggers
<1>3. [form[c] EXCEPT !.cron = cron] \in Form
  BY <1>1, SMT DEF SettingTypes, Form
<1>. QED  BY <1>2, <1>3

LEMMA GetKeeps ==
  ASSUME SettingInv, Tied, NEW c \in Client, Get(c)
  PROVE  SettingInv'
<1>0. SettingTypes /\ Copies /\ SecretsHidden /\ StoredCronFires  BY DEF SettingInv
<1>1. UNCHANGED <<settings, copy, masked>>  BY Zenon DEF Get
<1>2. Copies' /\ StoredCronFires'
  BY <1>0, <1>1, Zenon DEF Copies, Good, StoredCronFires, settings
<1>3. CASE UNCHANGED <<form, shown>>
  BY <1>0, <1>1, <1>2, <1>3, Zenon DEF SettingInv, SettingTypes, SecretsHidden, settings
<1>4. CASE row # None /\ Reveal(row.secret)
  <2>1. SecretsHidden' /\ shown' \subseteq Client \cup {Mask}
    BY <1>0, <1>4, RevealHides, Zenon
  <2>2. form' \in [Tab -> Form \cup {None}]
    <3>1. CASE form' = form  BY <1>0, <3>1, Zenon DEF SettingTypes
    <3>2. CASE c \in Tab
      BY <1>0, <1>4, <3>2, GetForms, Zenon DEF SettingTypes
    <3>. QED  BY <1>4, <3>1, <3>2, Zenon DEF Get
  <2>. QED  BY <1>0, <1>1, <1>2, <2>1, <2>2, Zenon DEF SettingInv, SettingTypes, settings
<1>. QED  BY <1>3, <1>4, Zenon DEF Get

LEMMA FormsKeep ==
  ASSUME SettingInv, Tied, NEW c \in Tab, Open(c) \/ Save(c) \/ Triggers(c)
  PROVE  SettingInv'
<1>0. SettingTypes /\ Copies /\ SecretsHidden /\ StoredCronFires  BY DEF SettingInv
<1>1. UNCHANGED <<settings, copy, history>>
  BY Zenon DEF Open, Save, Begin, Triggers
<1>2. Copies' /\ StoredCronFires' /\ SecretsHidden'
  BY <1>0, <1>1, Zenon DEF Copies, Good, StoredCronFires, SecretsHidden, settings, history
<1>3. ASSUME NEW f \in Form \cup {None}, form' = [form EXCEPT ![c] = f]
      PROVE  SettingInv'
  BY <1>0, <1>1, <1>2, <1>3, Zenon DEF SettingInv, SettingTypes, settings, history
<1>4. CASE Open(c)  BY <1>3, <1>4, Zenon DEF Open
<1>5. CASE Save(c)  BY <1>0, <1>3, <1>5, SaveForms, Zenon
<1>6. CASE Triggers(c)  BY <1>0, <1>3, <1>6, TriggersForms, Zenon
<1>. QED  BY <1>4, <1>5, <1>6

LEMMA FailKeeps ==
  ASSUME SettingInv, NEW c \in Client, Fail(c)
  PROVE  SettingInv'
<1>0. SettingTypes /\ Copies /\ SecretsHidden /\ StoredCronFires  BY DEF SettingInv
<1>1. UNCHANGED <<settings, form, history>> /\ copy' = [copy EXCEPT ![c] = None]
  BY Zenon DEF Fail
<1>2. SettingTypes'
  BY <1>0, <1>1, Zenon DEF SettingTypes, settings, history
<1>3. Copies' /\ StoredCronFires' /\ SecretsHidden'
  BY <1>0, <1>1, Zenon DEF SettingTypes, Copies, Good, StoredCronFires, SecretsHidden, settings,
                           history
<1>. QED  BY <1>2, <1>3 DEF SettingInv

LEMMA SettingsKept ==
  ASSUME SettingInv, Tied, [Next]_vars
  PROVE  SettingInv'
<1>1. CASE UNCHANGED <<settings, copy, form, history>>
  BY <1>1, Zenon DEF SettingInv, SettingTypes, Copies, Good, SecretsHidden, StoredCronFires,
                     settings, history
<1>. QED
  BY SettingSteps, <1>1, CreateKeeps, UpdateKeeps, ReplaceTriggersKeeps, UpdateFunctionKeeps,
     GetKeeps, FormsKeep, FailKeeps, Zenon
-----------------------------------------------------------------------------
(* What ties the requests to the copies and the forms.                     *)
Others(c) ==
  \A d \in Client \ {c} : at'[d] = at[d] /\ op'[d] = op[d] /\ copy'[d] = copy[d]
                         /\ (d \in Tab => form'[d] = form[d])

(* One client moves: it holds a row if and only if it is about to write,   *)
(* and has a form if it goes on with it.                                   *)
Moved(c, stage, o) ==
  /\ at'[c] = stage /\ op'[c] = o /\ Others(c)
  /\ stage = "write" <=> copy'[c] # None
  /\ (c \in Tab /\ o \in {"update", "put", "triggers"}) => form'[c] # None

LEMMA MovedTies ==
  ASSUME Tied, NEW c \in Client, NEW stage, NEW o, Moved(c, stage, o)
  PROVE  Tied'
BY Zenon DEF Tied, Moved, Others, Client

LEMMA Staged ==
  ASSUME RequestTypes, SettingTypes, NEW c \in Client, NEW stage, NEW o, NEW t,
         Stage(c, stage, o, t),
         copy' = copy \/ (\E r : copy' = [copy EXCEPT ![c] = r]),
         form' = form \/ (\E f : form' = [form EXCEPT ![c] = f])
  PROVE  at'[c] = stage /\ op'[c] = o /\ Others(c)
BY Zenon DEF Stage, RequestTypes, SettingTypes, Others, Client

LEMMA TiesKept ==
  ASSUME RequestInv, SettingInv, Tied, [Next]_vars
  PROVE  Tied'
<1>0. RequestTypes /\ SettingTypes /\ Admitted
  BY DEF RequestInv, SettingInv
<1>1. CASE UNCHANGED <<request, copy, form>>
  BY <1>1, Zenon DEF Tied, request
<1>2. ASSUME NEW c \in Client, Answer(c), copy'[c] = None,
             copy' = copy \/ copy' = [copy EXCEPT ![c] = None],
             form' = form \/ (\E f : form' = [form EXCEPT ![c] = f])
      PROVE  Tied'
  <2>1. at'[c] = "idle" /\ op'[c] = "none" /\ Others(c)
    BY <1>0, <1>2, Staged, Zenon DEF Answer
  <2>. QED  BY <1>2, <2>1, MovedTies, Zenon DEF Moved
<1>3. ASSUME NEW c \in Client, at[c] # "write"  PROVE copy[c] = None
  BY <1>3, Zenon DEF Tied
<1>4. ASSUME NEW c \in Client, NEW o, AnswerThen(c, o), copy'[c] = None,
             copy' = copy \/ copy' = [copy EXCEPT ![c] = None],
             form' = form \/ (\E f : form' = [form EXCEPT ![c] = f]),
             (c \in Tab /\ o \in {"put", "triggers"}) => form'[c] # None, o # "update"
      PROVE  Tied'
  <2>1. CASE c \in Tab
    <3>1. at'[c] = "sent" /\ op'[c] = o /\ Others(c)
      BY <1>0, <1>4, <2>1, Staged, Zenon DEF AnswerThen
    <3>. QED  BY <1>4, <3>1, MovedTies, Zenon DEF Moved
  <2>. QED  BY <1>2, <1>4, <2>1, Zenon DEF AnswerThen
<1>5. ASSUME NEW c \in Client, Create(c, TRUE) \/ Create(c, FALSE) \/ \E d \in BOOLEAN : Logout(c, d)
      PROVE  Tied'
  BY <1>2, <1>3, <1>5, Zenon DEF Create, Logout, Serving
<1>6. ASSUME NEW c \in Client, Fail(c)  PROVE Tied'
  BY <1>0, <1>2, <1>6, Zenon DEF Fail, SettingTypes
<1>7. ASSUME NEW c \in Client, Check(c)  PROVE Tied'
  <2>1. at[c] = "sent" /\ copy[c] = None /\ UNCHANGED <<copy, form>>
    BY <1>3, <1>7, Zenon DEF Check
  <2>2. CASE Stage(c, "in", op[c], tok[c])
    <3>1. at'[c] = "in" /\ op'[c] = op[c] /\ Others(c)
      BY <1>0, <2>1, <2>2, Staged, Zenon
    <3>. QED  BY <2>1, <3>1, MovedTies, Zenon DEF Moved, Tied
  <2>. QED  BY <1>2, <1>7, <2>1, <2>2, Zenon DEF Check
<1>8. ASSUME NEW c \in Client, NEW o, Begin(c, o),
             form' = form \/ (\E f : form' = [form EXCEPT ![c] = f]),
             (c \in Tab /\ o \in {"update", "put", "triggers"}) => form'[c] # None
      PROVE  Tied'
  <2>1. copy' = copy /\ copy[c] = None  BY <1>3, <1>8, Zenon DEF Begin
  <2>2. at'[c] = "sent" /\ op'[c] = o /\ Others(c)
    BY <1>0, <1>8, <2>1, Staged, Zenon DEF Begin
  <2>. QED  BY <1>8, <2>1, <2>2, MovedTies, Zenon DEF Moved
<1>9. ASSUME NEW c \in Client, NEW o \in Op, Send(c, o)  PROVE Tied'
  <2>1. c \in Tab => o \in {"create", "get"}  BY <1>9, ConsoleAssumption, Zenon DEF Send, Asks
  <2>. QED  BY <1>8, <1>9, <2>1, Zenon DEF Send
<1>10. ASSUME NEW c \in Tab, Open(c)  PROVE Tied'
  BY <1>8, <1>10, Zenon DEF Open, Client
<1>11. ASSUME NEW c \in Tab, Save(c)  PROVE Tied'
  <2>1. PICK f \in Form : form' = [form EXCEPT ![c] = f]  BY <1>0, <1>11, SaveForms, Zenon
  <2>2. form'[c] # None  BY <1>0, <2>1, ConsoleAssumption, Zenon DEF SettingTypes
  <2>. QED  BY <1>8, <1>11, <2>1, <2>2, Zenon DEF Save, Client
<1>12. ASSUME NEW c \in Tab, Triggers(c)  PROVE Tied'
  <2>1. \E f \in Form : form' = [form EXCEPT ![c] = f]
    BY <1>0, <1>12, TriggersForms, Zenon
  <2>. QED  BY <1>2, <1>3, <1>12, <2>1, Zenon DEF Triggers, Serving, Client
<1>13. ASSUME NEW c \in Client, Get(c)  PROVE Tied'
  <2>1. at[c] # "write" /\ UNCHANGED copy  BY <1>13, Zenon DEF Get, Serving
  <2>2. CASE Answer(c) /\ form' = form  BY <1>2, <1>3, <2>1, <2>2, Zenon
  <2>3. CASE row # None /\ AnswerThen(c, "triggers")
    <3>1. CASE c \in Tab
      <4>1. PICK f \in Form : form' = [form EXCEPT ![c] = f]
        BY <1>0, <1>13, <2>3, <3>1, GetForms, Zenon
      <4>2. form'[c] # None  BY <1>0, <3>1, <4>1, ConsoleAssumption, Zenon DEF SettingTypes
      <4>. QED  BY <1>3, <1>4, <2>1, <2>3, <4>1, <4>2, Zenon
    <3>2. CASE c \notin Tab
      <4>1. form' = form  BY <1>13, <3>2, Zenon DEF Get
      <4>. QED  BY <1>2, <1>3, <2>1, <2>3, <3>2, <4>1, Zenon DEF AnswerThen
    <3>. QED  BY <3>1, <3>2
  <2>. QED  BY <1>13, <2>2, <2>3, Zenon DEF Get
<1>14. ASSUME NEW c \in Client, NEW rest \in BOOLEAN, Update(c, rest)  PROVE Tied'
  <2>1. at[c] # "write" /\ op[c] = "update" /\ form' = form
    BY <1>14, Zenon DEF Update, Serving
  <2>2. CASE Answer(c) /\ copy' = copy  BY <1>2, <1>3, <2>1, <2>2, Zenon
  <2>3. ASSUME NEW b \in Patches(c), row # None, ~Invalid(b, rest),
               Stage(c, "write", "update", tok[c]), copy' = [copy EXCEPT ![c] = Patched(b)]
        PROVE  Tied'
    <3>1. at'[c] = "write" /\ op'[c] = "update" /\ Others(c)
      BY <1>0, <2>1, <2>3, Staged, Zenon
    <3>2. Patched(b) \in Row  BY <1>0, <2>1, <2>3, PatchedRow, Zenon
    <3>3. copy'[c] # None  BY <1>0, <2>3, <3>2, RowFields, Zenon DEF SettingTypes
    <3>. QED  BY <2>1, <3>1, <3>3, MovedTies, Zenon DEF Moved, Tied
  <2>. QED  BY <1>14, <2>2, <2>3, Zenon DEF Update
<1>15. ASSUME NEW c \in Client, NEW rest \in BOOLEAN, ReplaceTriggers(c, rest)  PROVE Tied'
  <2>1. at[c] # "write" /\ UNCHANGED <<copy, form>>
    BY <1>15, Zenon DEF ReplaceTriggers, Serving
  <2>. QED  BY <1>2, <1>3, <1>4, <1>15, <2>1, Zenon DEF ReplaceTriggers
<1>16. ASSUME NEW c \in Client, UpdateFunction(c)  PROVE Tied'
  <2>1. form' = form /\ copy' = [copy EXCEPT ![c] = None] /\ op[c] = "update"
    BY <1>0, <1>16, Zenon DEF UpdateFunction, Admitted
  <2>2. copy'[c] = None  BY <1>0, <2>1, Zenon DEF SettingTypes
  <2>3. c \in Tab => form'[c] # None  BY <2>1, Zenon DEF Tied
  <2>. QED  BY <1>4, <1>16, <2>1, <2>2, <2>3, Zenon DEF UpdateFunction
<1>17. ASSUME NEW c \in Client, Session(c)  PROVE Tied'
  BY <1>1, <1>5, <1>6, <1>7, <1>9, <1>17, Zenon DEF Session, Login
<1>18. ASSUME NEW c \in Client, Setting(c)  PROVE Tied'
  <2>1. ASSUME NEW rest \in BOOLEAN, Create(c, rest)  PROVE Tied'
    BY <1>2, <1>3, <2>1, Zenon DEF Create, Serving
  <2>. QED  BY <1>13, <1>14, <1>15, <1>16, <1>18, <2>1, Zenon DEF Setting
<1>19. CASE UNCHANGED vars  BY <1>1, <1>19, Zenon DEF vars
<1>20. CASE Tick \/ SweepSome \/ Forget
  BY <1>1, <1>20, Zenon DEF Tick, SweepSome, Sweep, Forget
<1>. QED
  BY <1>10, <1>11, <1>12, <1>17, <1>18, <1>19, <1>20, Zenon DEF Next
-----------------------------------------------------------------------------
LEMMA InitHolds == Init => ConsoleInv
<1>. SUFFICES ASSUME Init PROVE ConsoleInv  OBVIOUS
<1>. USE ConsoleAssumption DEF Init
<1>1. SessionTypes /\ LogoutIsFinal /\ SessionsLast
  BY SMT DEF SessionTypes, LogoutIsFinal, SessionsLast, Token
<1>2. Drawn  BY SMT DEF Drawn, Token
<1>3. RequestTypes /\ Admitted  BY Zenon, SMT DEF RequestTypes, Admitted, Label, Op
<1>4. SettingTypes  BY Zenon DEF SettingTypes
<1>5. Copies /\ SecretsHidden /\ StoredCronFires
  BY Zenon DEF Copies, SecretsHidden, StoredCronFires
<1>6. Tied  BY Zenon DEF Tied, Client
<1>. QED  BY <1>1, <1>2, <1>3, <1>4, <1>5, <1>6 DEF ConsoleInv, SessionInv, RequestInv, SettingInv

LEMMA StepKeeps == ConsoleInv /\ [Next]_vars => ConsoleInv'
<1>. SUFFICES ASSUME ConsoleInv, [Next]_vars PROVE ConsoleInv'  OBVIOUS
<1>0. SessionInv /\ RequestInv /\ SettingInv /\ Tied  BY DEF ConsoleInv
<1>1. (SessionTypes /\ Undrawn /\ LogoutIsFinal /\ SessionsLast)'  BY <1>0, SessionsKept
<1>2. RequestInv' /\ \A c \in Client : tok'[c] <= logins'  BY <1>0, RequestsKept
<1>3. SessionInv'  BY <1>1, <1>2, Zenon DEF SessionInv, Drawn, Undrawn
<1>4. SettingInv'  BY <1>0, SettingsKept
<1>5. Tied'  BY <1>0, TiesKept
<1>. QED  BY <1>2, <1>3, <1>4, <1>5 DEF ConsoleInv

(* The inductive invariant: see SessionInv, RequestInv, SettingInv, Tied.  *)
THEOREM ConsoleInvariant == Spec => []ConsoleInv
BY InitHolds, StepKeeps, PTL DEF Spec

(* The state of the console is well-formed: an Update between its two      *)
(* statements, and only that, holds a row, and a tab that saves or loads   *)
(* has a form.  No path to the row, neither the defaults of Create nor a   *)
(* stale copy of Update, gets around the limits of the timeout.            *)
THEOREM ConsoleTypeCorrect == Spec => []ConsoleTypeOK
<1>1. SettingInv /\ row # None => Clamp(row.timeout) = row.timeout
  BY DEF SettingInv, Copies, Good
<1>2. ConsoleInv => ConsoleTypeOK
  BY <1>1, TypesAgree, Zenon DEF ConsoleInv, SessionInv, RequestInv, SettingInv
<1>. QED  BY <1>2, ConsoleInvariant, PTL

(* A session that a logout has deleted stays deleted, whatever other       *)
(* requests were under way with the same token.                            *)
THEOREM LogoutEndsSessions == Spec => []LogoutIsFinal
<1>1. ConsoleInv => LogoutIsFinal  BY DEF ConsoleInv, SessionInv
<1>. QED  BY <1>1, ConsoleInvariant, PTL

(* A token is good for one session: once that has ended, by a logout or by *)
(* the sweep, no request renews it or brings it back, and no login is      *)
(* given the same token again.                                             *)
SessionsNeverReturn ==
  [][\A t \in Token : t <= logins => sessions'[t] \in {sessions[t], 0}]_vars

THEOREM SessionsNeverComeBack == Spec => SessionsNeverReturn
<1>1. ASSUME SessionInv, [Next]_vars, NEW t \in Token, t <= logins
      PROVE  sessions'[t] \in {sessions[t], 0}
  <2>. USE <1>1 DEF SessionInv, SessionTypes
  <2>1. CASE UNCHANGED <<now, auth, held>>  BY <2>1 DEF auth
  <2>2. CASE Tick  BY <2>2 DEF Tick, auth
  <2>3. CASE SweepSome  BY <2>3 DEF SweepSome, Sweep
  <2>4. CASE Forget  BY <2>4 DEF Forget, auth
  <2>5. ASSUME NEW c \in Client, NEW answered \in BOOLEAN, Login(c, answered)
        PROVE  sessions'[t] \in {sessions[t], 0}
    BY <2>5, SMT DEF Login, PutSession, Token
  <2>6. ASSUME NEW c \in Client, NEW deletes \in BOOLEAN, Logout(c, deletes)
        PROVE  sessions'[t] \in {sessions[t], 0}
    BY <2>6, SMT DEF Logout, DeleteSession
  <2>. QED  BY <1>1, <2>1, <2>2, <2>3, <2>4, <2>5, <2>6, SessionSteps
<1>2. SessionInv /\ [Next]_vars =>
        [\A t \in Token : t <= logins => sessions'[t] \in {sessions[t], 0}]_vars
  BY <1>1
<1>3. ConsoleInv => SessionInv  BY DEF ConsoleInv
<1>. QED  BY <1>2, <1>3, ConsoleInvariant, PTL DEF Spec, SessionsNeverReturn

(* No session ends before the time its login promised, less the distance   *)
(* of the two clocks, unless a logout ends it.                             *)
THEOREM SessionsKeepTheirPromise == Spec => []SessionsLast
<1>1. ConsoleInv => SessionsLast  BY DEF ConsoleInv, SessionInv
<1>. QED  BY <1>1, ConsoleInvariant, PTL

(* Answers show the mask and never a secret.                               *)
THEOREM AnswersAreMasked == Spec => []SecretsHidden
<1>1. ConsoleInv => SecretsHidden  BY DEF ConsoleInv, SettingInv
<1>. QED  BY <1>1, ConsoleInvariant, PTL

(* The mask never gets into a row by the server's own doing: the masked    *)
(* answer of an Update is not what it stores, and a script's PATCH of      *)
(* something else leaves the secret alone.                                 *)
THEOREM MaskOnlyFromForms == Spec => []MaskComesFromForms
<1>1. ConsoleInv => MaskComesFromForms
  BY DEF ConsoleInv, SettingInv, Copies, Good, MaskComesFromForms
<1>. QED  BY <1>1, ConsoleInvariant, PTL

(* Whatever the editor saves, the scheduler can parse; whatever a script   *)
(* stores, it could if it trimmed.                                         *)
THEOREM SavedCronFires == Spec => []StoredCronFires
<1>1. ConsoleInv => StoredCronFires  BY DEF ConsoleInv, SettingInv
<1>. QED  BY <1>1, ConsoleInvariant, PTL
=============================================================================
