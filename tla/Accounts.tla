------------------------------ MODULE Accounts ------------------------------
(***************************************************************************)
(* Accounts of NailTrace (apps/accounts, and the user endpoints of         *)
(* apps/admin_panel): user rows, refresh and access tokens with the claims *)
(* the code puts into them, reset links, and the permission that reads the *)
(* claims.                                                                 *)
(*                                                                         *)
(* A request loads a row in one step and writes in another.  Tokens are    *)
(* simplejwt's: an access token is good until it expires, a refresh token  *)
(* until it is on the blacklist; refreshing puts the old one there and     *)
(* copies its claims.                                                      *)
(***************************************************************************)
EXTENDS Integers, Sequences

CONSTANTS
    User,           \* technicians, by primary key; admins are outside
    Email,          \* addresses
    Web,            \* gunicorn threads
    None,           \* no row, no token, no link
    MaxAsked        \* bound: requests, and changes of a subscription

\* Passwords and instants are numbers, none of which is used twice.
Stamp == Nat

\* A row of User: password is the salted hash, login the last_login.
Row == [email : Email, active : BOOLEAN, suspended : BOOLEAN,
        password : Stamp, login : Stamp]

\* The claims of a token, the first refresh token of its session, and for a
\* refresh token whether it is on the blacklist.  Of the claims
\* has_active_subscription stands for subscription_tier too; role and is_admin
\* are those of a technician.
Claims == [user : User, paid : BOOLEAN, barred : BOOLEAN, session : Nat \ {0}]
Refreshable == [claims : Claims, black : BOOLEAN]

\* A reset link: what the hash of its token covers, and how often it was used.
Link == [user : User, email : Email, password : Stamp, login : Stamp, uses : Nat]

Pc == {"idle", "register", "login", "refresh", "save", "change", "reset"}
Column == {"email", "active", "suspended"}
Field == Column \cup {"password", "login"}

\* What a thread holds: the row it loaded, with the columns its request sets
\* already set, and the token or the link it has checked.
Request == [pc : Pc, user : User \cup {None}, row : Row \cup {None},
            sets : SUBSET Column, item : Nat]

Hold(pc, u, r, sets, item) ==
    [pc |-> pc, user |-> u, row |-> r, sets |-> sets, item |-> item]
Idle == Hold("idle", None, None, {}, 0)

ASSUME MaxAskedAssumption == MaxAsked \in Nat
ASSUME NoneAssumption == None \notin User /\ None \notin Row

VARIABLES
    rows,           \* User rows
    paid,           \* whose Subscription is active (see Billing)
    tokens,         \* refresh tokens in the order they were issued
    access,         \* the claims of access tokens that have not expired
    links,          \* reset links in the order they were sent
    web,            \* what each thread is doing
    stamp,          \* the last password or instant used
    asked,          \* how much of MaxAsked is spent
    \* History, read by the properties only:
    meant,          \* rows, had each request written its own columns only
    exposed,        \* columns of users written while a PATCH held an older row
    contested,      \* links used by two requests at once
    forked,         \* sessions of which two requests used one token at once
    overtaken,      \* logins whose account was suspended after they loaded it
    opened          \* per session: was it right to begin it (see OpenSession)

history == <<meant, exposed, contested, forked, overtaken, opened>>
vars == <<rows, paid, tokens, access, links, web, stamp, asked, history>>

TypeOK ==
    /\ rows \in [User -> Row \cup {None}]
    /\ paid \in [User -> BOOLEAN]
    /\ tokens \in Seq(Refreshable)
    /\ access \subseteq Claims
    /\ links \in Seq(Link)
    /\ web \in [Web -> Request]
    /\ stamp \in Nat
    /\ asked \in 0 .. MaxAsked
    /\ meant \in [User -> Row \cup {None}]
    /\ exposed \subseteq User \X Field /\ overtaken \subseteq Web
    /\ contested \subseteq Nat /\ forked \subseteq Nat
    /\ opened \in Seq(BOOLEAN)

Init ==
    /\ rows = [u \in User |-> None] /\ meant = rows
    /\ paid = [u \in User |-> FALSE]
    /\ tokens = <<>> /\ access = {} /\ links = <<>> /\ opened = <<>>
    /\ web = [t \in Web |-> Idle]
    /\ stamp = 0
    /\ asked = 0
    /\ exposed = {} /\ contested = {} /\ forked = {} /\ overtaken = {}

-----------------------------------------------------------------------------
(* Helpers *)

Ask == asked < MaxAsked /\ asked' = asked + 1
At(t, pc) == web[t].pc = pc
Done(t) == web' = [web EXCEPT ![t] = Idle]
Take(t, r) == At(t, "idle") /\ web' = [web EXCEPT ![t] = r]

\* JWTAuthentication: the bearer of an access token, if the row is active.
SignedIn(u) == rows[u] # None /\ rows[u].active /\ \E a \in access : a.user = u

\* HasActiveSubscription, for tokens with the claims of the code: its fast path
\* reads no row.
HasActiveSubscription(c) == ~c.barred /\ c.paid

\* A request to a board or an annotation is let in.
LetIn(c) == rows[c.user] # None /\ rows[c.user].active /\ HasActiveSubscription(c)

\* The hash leaves the password out.
GoodVariant(l) ==
    LET r == rows[l.user] IN r # None /\ r.email = l.email /\ r.login = l.login

\* The token of a link is good as long as nothing its hash covers has changed.
Good(l) ==
    LET r == rows[l.user] IN
    r # None /\ r.email = l.email /\ r.password = l.password /\ r.login = l.login

\* History: a PATCH that has loaded its row, and is not about column f, will write
\* back the f it loaded.
Expose(u, written) ==
    exposed' = exposed \cup {<<u, f>> : f \in {g \in written :
        \E t \in Web : At(t, "save") /\ web[t].user = u /\ g \notin web[t].sets}}

\* Two kinds of write: save(update_fields=[f]), and save() of a loaded row by a
\* request that is about the columns sets.
SetColumn(u, f, v) ==
    /\ rows' = [rows EXCEPT ![u][f] = v]
    /\ meant' = [meant EXCEPT ![u][f] = v]
    /\ Expose(u, {f})

SaveRow(u, r, sets) ==
    /\ rows' = [rows EXCEPT ![u] = r]
    /\ meant' = [meant EXCEPT ![u] = [f \in DOMAIN r |->
            IF f \in sets THEN r[f] ELSE @[f]]]
    /\ Expose(u, sets)

\* The refresh token and the access token of a new session.  History: a session
\* is right if the subscription is active and the row in the table not suspended,
\* unless it was suspended behind the back of this login.
Begins(t, c) ==
    /\ tokens' = Append(tokens, [claims |-> c, black |-> FALSE])
    /\ access' = access \cup {c}
    /\ opened' = Append(opened,
            paid[c.user] /\ (~rows'[c.user].suspended \/ t \in overtaken))

\* get_token asks whether there is a subscription, not whether it is active.
OpenSessionVariant(t, barred) ==
    Begins(t, [user |-> web[t].user, paid |-> TRUE, barred |-> barred,
               session |-> Len(opened) + 1])

\* Like subscription_tier, the claim is None without an active subscription.
TierVariant(t, barred) ==
    Begins(t, [user |-> web[t].user, paid |-> IF paid[web[t].user] THEN TRUE ELSE None,
               barred |-> barred, session |-> Len(opened) + 1])

\* get_token, for the user of request t: the subscription is looked up now,
\* is_suspended is that of the row at hand.
OpenSession(t, barred) ==
    Begins(t, [user |-> web[t].user, paid |-> paid[web[t].user], barred |-> barred,
               session |-> Len(opened) + 1])

-----------------------------------------------------------------------------
(* POST register/, login/ *)

\* validate_email: nobody has the address.
Register(t, u, e) ==
    /\ Ask
    /\ rows[u] = None
    /\ \A v \in User : rows[v] # None => rows[v].email # e
    /\ stamp' = stamp + 1
    /\ LET row == [email |-> e, active |-> TRUE, suspended |-> FALSE,
                   password |-> stamp + 1, login |-> 0]
       IN  Take(t, Hold("register", u, row, {}, 0))
    /\ UNCHANGED <<rows, paid, tokens, access, links, history>>

\* create_user, and the tokens of a session.  The second of two requests for one
\* user name breaks the unique constraint.
RegisterCreate(t) ==
    /\ At(t, "register")
    /\ LET u == web[t].user IN
        \/ /\ rows[u] = None
           /\ rows' = [rows EXCEPT ![u] = web[t].row]
           /\ meant' = [meant EXCEPT ![u] = web[t].row]
           /\ OpenSession(t, FALSE)
        \/ rows[u] # None /\ UNCHANGED <<rows, meant, tokens, access, opened>>
    /\ Done(t)
    /\ UNCHANGED <<paid, links, stamp, asked, exposed, contested, forked, overtaken>>

\* authenticate: the password is right and the row is active.
Login(t, u) ==
    /\ Ask
    /\ rows[u] # None /\ rows[u].active
    /\ Take(t, Hold("login", u, rows[u], {}, 0))
    /\ UNCHANGED <<rows, paid, tokens, access, links, stamp, history>>

\* get_token, update_last_login, and the check of is_suspended on the row that
\* was loaded, after which the tokens are handed out or not.
LoginMint(t) ==
    /\ At(t, "login")
    /\ LET u == web[t].user IN
        /\ stamp' = stamp + 1
        /\ SetColumn(u, "login", stamp + 1)
        /\ IF web[t].row.suspended
           THEN UNCHANGED <<tokens, access, opened>>
           ELSE OpenSession(t, web[t].row.suspended)
    /\ overtaken' = overtaken \ {t}
    /\ Done(t)
    /\ UNCHANGED <<paid, links, asked, contested, forked>>

-----------------------------------------------------------------------------
(* POST refresh/ (simplejwt, with rotation and blacklist), logout/ *)

\* History: token k is used while a request refreshes it.
UseToken(k) ==
    /\ forked' = IF \E t \in Web : At(t, "refresh") /\ web[t].item = k
                 THEN forked \cup {tokens[k].claims.session} ELSE forked
    /\ UNCHANGED <<meant, exposed, contested, overtaken, opened>>

\* The blacklist is not looked at.
RefreshVariant(t, k) ==
    /\ Ask
    /\ k \in DOMAIN tokens
    /\ Take(t, Hold("refresh", None, None, {}, k))
    /\ UseToken(k)
    /\ UNCHANGED <<rows, paid, tokens, access, links, stamp>>

\* The token is not on the blacklist.
Refresh(t, k) ==
    /\ Ask
    /\ k \in DOMAIN tokens /\ ~tokens[k].black
    /\ Take(t, Hold("refresh", None, None, {}, k))
    /\ UseToken(k)
    /\ UNCHANGED <<rows, paid, tokens, access, links, stamp>>

\* The old token stays good.
RefreshMintVariant(t) ==
    /\ At(t, "refresh")
    /\ LET k == web[t].item
           c == tokens[k].claims IN
        /\ access' = access \cup {c}
        /\ tokens' = Append(tokens, [claims |-> c, black |-> FALSE])
    /\ Done(t)
    /\ UNCHANGED <<rows, paid, links, stamp, asked, history>>

\* The claims are those of the old token; no row is read.  The old token goes on
\* the blacklist, or is there already.
RefreshMint(t) ==
    /\ At(t, "refresh")
    /\ LET k == web[t].item
           c == tokens[k].claims IN
        /\ access' = access \cup {c}
        /\ tokens' = Append([tokens EXCEPT ![k].black = TRUE],
                            [claims |-> c, black |-> FALSE])
    /\ Done(t)
    /\ UNCHANGED <<rows, paid, links, stamp, asked, history>>

\* token.blacklist(), for anyone who is signed in.
Logout(u, k) ==
    /\ Ask
    /\ SignedIn(u)
    /\ k \in DOMAIN tokens
    /\ tokens' = [tokens EXCEPT ![k].black = TRUE]
    /\ UseToken(k)
    /\ UNCHANGED <<rows, paid, access, links, web, stamp>>

-----------------------------------------------------------------------------
(* PATCH me/, PATCH admin/users/{id}/ *)

\* request.user, loaded when the token was checked, with a new address: the
\* serializer lets its bearer write it and asks nobody else's.
Profile(t, u, e) ==
    /\ Ask
    /\ SignedIn(u)
    /\ Take(t, Hold("save", u, [rows[u] EXCEPT !.email = e], {"email"}, 0))
    /\ UNCHANGED <<rows, paid, tokens, access, links, stamp, history>>

\* An admin suspends, activates or deactivates a technician, or takes it back.
AdminUserPatch(t, u, f) ==
    /\ Ask
    /\ rows[u] # None
    /\ f \in {"active", "suspended"}
    /\ Take(t, Hold("save", u, [rows[u] EXCEPT ![f] = ~@], {f}, 0))
    /\ UNCHANGED <<rows, paid, tokens, access, links, stamp, history>>

\* History: u is suspended while some login of u has its row.
Overtake(u) ==
    overtaken' = IF ~rows[u].suspended /\ rows'[u].suspended
                 THEN overtaken \cup {s \in Web : At(s, "login") /\ web[s].user = u}
                 ELSE overtaken

\* serializer.save() of either: every column of the row as it was loaded.
PatchSave(t) ==
    /\ At(t, "save")
    /\ SaveRow(web[t].user, web[t].row, web[t].sets)
    /\ Overtake(web[t].user)
    /\ Done(t)
    /\ UNCHANGED <<paid, tokens, access, links, stamp, asked, contested, forked, opened>>

-----------------------------------------------------------------------------
(* POST password/change/, password/reset/, password/reset/confirm/ *)

\* The old password is that of request.user.
Change(t, u) ==
    /\ Ask
    /\ SignedIn(u)
    /\ Take(t, Hold("change", u, rows[u], {}, 0))
    /\ UNCHANGED <<rows, paid, tokens, access, links, stamp, history>>

\* save() without update_fields.
ChangeSaveVariant(t) ==
    /\ At(t, "change")
    /\ stamp' = stamp + 1
    /\ rows' = [rows EXCEPT ![web[t].user] = [web[t].row EXCEPT !.password = stamp + 1]]
    /\ meant' = [meant EXCEPT ![web[t].user].password = stamp + 1]
    /\ Expose(web[t].user, {"password"})
    /\ Done(t)
    /\ UNCHANGED <<paid, tokens, access, links, asked, contested, forked, overtaken, opened>>

ChangeSave(t) ==
    /\ At(t, "change")
    /\ stamp' = stamp + 1
    /\ SetColumn(web[t].user, "password", stamp + 1)
    /\ Done(t)
    /\ UNCHANGED <<paid, tokens, access, links, asked, contested, forked, overtaken, opened>>

\* The address must belong to one row: get() raises on two.
ResetRequest(u) ==
    /\ Ask
    /\ rows[u] # None
    /\ \A v \in User \ {u} : rows[v] # None => rows[v].email # rows[u].email
    /\ links' = Append(links, [user |-> u, email |-> rows[u].email,
            password |-> rows[u].password, login |-> rows[u].login, uses |-> 0])
    /\ UNCHANGED <<rows, paid, tokens, access, web, stamp, history>>

\* check_token
ResetConfirm(t, i) ==
    /\ Ask
    /\ i \in DOMAIN links /\ Good(links[i])
    /\ Take(t, Hold("reset", links[i].user, None, {}, i))
    /\ UNCHANGED <<rows, paid, tokens, access, links, stamp, history>>

ResetSave(t) ==
    /\ At(t, "reset")
    /\ LET i == web[t].item IN
        /\ stamp' = stamp + 1
        /\ SetColumn(web[t].user, "password", stamp + 1)
        /\ contested' = IF Good(links[i]) THEN contested ELSE contested \cup {i}
        /\ links' = [links EXCEPT ![i].uses = @ + 1]
    /\ Done(t)
    /\ UNCHANGED <<paid, tokens, access, asked, forked, overtaken, opened>>

-----------------------------------------------------------------------------
(* Billing and the clock *)

\* A subscription begins, or ends, is cancelled or runs out.
PaidChanges(u) ==
    /\ Ask
    /\ rows[u] # None
    /\ paid' = [paid EXCEPT ![u] = ~@]
    /\ UNCHANGED <<rows, tokens, access, links, web, stamp, history>>

\* ACCESS_TOKEN_LIFETIME is over.
AccessExpires(c) ==
    /\ c \in access
    /\ access' = access \ {c}
    /\ UNCHANGED <<rows, paid, tokens, links, web, stamp, asked, history>>

-----------------------------------------------------------------------------

WebStep(t) ==
    \/ RegisterCreate(t) \/ LoginMint(t) \/ RefreshMint(t)
    \/ PatchSave(t) \/ ChangeSave(t) \/ ResetSave(t)

Begin(t) ==
    \/ \E u \in User : Login(t, u) \/ Change(t, u)
    \/ \E u \in User, e \in Email : Register(t, u, e) \/ Profile(t, u, e)
    \/ \E u \in User, f \in Column : AdminUserPatch(t, u, f)
    \/ \E k \in DOMAIN tokens : Refresh(t, k)
    \/ \E i \in DOMAIN links : ResetConfirm(t, i)

Next ==
    \/ \E t \in Web : WebStep(t) \/ Begin(t)
    \/ \E u \in User : ResetRequest(u) \/ PaidChanges(u)
    \/ \E u \in User, k \in DOMAIN tokens : Logout(u, k)
    \/ \E c \in access : AccessExpires(c)

Spec == Init /\ [][Next]_vars

-----------------------------------------------------------------------------
(* Properties *)

\* Whoever is let in to boards began the session with an active subscription and an
\* account that the table did not show as suspended, unless the suspension was
\* saved between the login's load of the row and its tokens.  The three columns
\* get_token writes, the 403 of login, and the copies a refresh makes
\* (accounts/views.py:41-53, 106-111; permissions.py:78-85).
LetInAtLogin == \A c \in access : LetIn(c) => opened[c.session]

\* A session has at most one refresh token that is still good, unless two requests
\* used one token at the same time: rotation leaves no predecessor behind
\* (BLACKLIST_AFTER_ROTATION, settings/base.py:122).
OneTokenPerSession ==
    \A j, k \in DOMAIN tokens :
        /\ tokens[j].claims.session = tokens[k].claims.session
        /\ ~tokens[j].black /\ ~tokens[k].black
        /\ tokens[j].claims.session \notin forked
        => j = k

\* A session whose tokens are all on the blacklist gets no new one, unless a
\* refresh had passed its check before the logout: "it can no longer generate new
\* access tokens" (accounts/views.py:199).
Ended(s) == \A k \in DOMAIN tokens : tokens[k].claims.session = s => tokens[k].black
LogoutIsFinal ==
    [][\A s \in DOMAIN opened : Ended(s) /\ s \notin forked' => Ended(s)']_vars

\* Every request writes the columns it is about and leaves no trace in the others,
\* whatever runs at the same time (save with update_fields, accounts/views.py:191,
\* 299; login writes last_login only).  Excepted is a column that was written while
\* a PATCH held the row as it was before.  So away from PATCHes a suspension, a
\* deactivation, a new password or a login stays.
RowsAsMeant ==
    \A u \in User :
        /\ rows[u] = None <=> meant[u] = None
        /\ rows[u] # None => \A f \in Field :
                <<u, f>> \in exposed \/ rows[u][f] = meant[u][f]

\* A reset link sets a password once, unless two requests use it at the same time
\* or a password was set while a PATCH held the old one (accounts/views.py:292-299).
LinkIsSpent ==
    \A i \in DOMAIN links :
        links[i].uses > 1 => i \in contested \/ <<links[i].user, "password">> \in exposed
=============================================================================
