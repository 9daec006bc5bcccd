--------------------------- MODULE AccountsProofs ---------------------------
(* Proofs about Accounts, for any users, addresses, threads and bound.        *)
EXTENDS Accounts, TLAPS

-----------------------------------------------------------------------------
(* The inductive invariant: what requests hold is still there when they write. *)

Loaded == {"register", "login", "save", "change"}
Existing == {"login", "save", "change", "reset"}

\* A request that holds a row knows whose it is, and the row is not from the
\* future; rows are never deleted, tokens and links never forgotten.
Holds(r) ==
    /\ r.pc \in Loaded => r.user \in User /\ r.row \in Row /\ r.row.password <= stamp
    /\ r.pc = "register" => ~r.row.suspended
    /\ r.pc \in Existing => r.user \in User /\ rows[r.user] # None
    /\ r.pc = "refresh" => r.item \in DOMAIN tokens
    /\ r.pc = "reset" => r.item \in DOMAIN links /\ r.user = links[r.item].user

Holding == \A t \in Web : Holds(web[t])

\* What is meant exists just where a row exists.
Known == \A u \in User : rows[u] = None <=> meant[u] = None

\* Passwords come from the past, in rows and in links.
Aged ==
    /\ \A u \in User : rows[u] # None => rows[u].password <= stamp
    /\ \A i \in DOMAIN links : rows[links[i].user] # None /\ links[i].password <= stamp

\* Nobody had claims to be let in who should not have been.
Truthful(c) == c.session \in DOMAIN opened /\ (c.paid /\ ~c.barred => opened[c.session])
ClaimsTrue ==
    /\ \A c \in access : Truthful(c)
    /\ \A k \in DOMAIN tokens : Truthful(tokens[k].claims)

\* A token that is refreshed twice at once, or blacklisted meanwhile, is noted.
Noted ==
    /\ \A t \in Web : web[t].pc = "refresh" /\ tokens[web[t].item].black =>
        tokens[web[t].item].claims.session \in forked
    /\ \A t, s \in Web :
        t # s /\ web[t].pc = "refresh" /\ web[s].pc = "refresh"
              /\ web[t].item = web[s].item =>
            tokens[web[t].item].claims.session \in forked

\* A login whose row is out of date about a suspension was overtaken by it.
Overtaken ==
    \A t \in Web : web[t].pc = "login" /\ rows[web[t].user].suspended =>
        web[t].row.suspended \/ t \in overtaken

\* A PATCH's row is up to date, but for columns written since it was loaded.
Stale(r) ==
    r.pc = "save" => \A f \in Field \ r.sets :
        r.row[f] = rows[r.user][f] \/ <<r.user, f>> \in exposed
Staleness == \A t \in Web : Stale(web[t])

\* A link that was used has an older password than its user.
Spent ==
    \A i \in DOMAIN links :
        links[i].uses >= 1 /\ <<links[i].user, "password">> \notin exposed =>
            links[i].password < rows[links[i].user].password

Base == TypeOK /\ Holding /\ Known /\ Aged /\ Staleness /\ Overtaken

Inv == Base /\ ClaimsTrue /\ Noted /\ Spent
       /\ RowsAsMeant /\ OneTokenPerSession /\ LinkIsSpent

-----------------------------------------------------------------------------
(* Type correctness *)

LEMMA NoneIsNoRow == None \notin User /\ None \notin Row
BY NoneAssumption

LEMMA IdleType == Idle \in Request
BY DEF Idle, Hold, Request, Pc, Column

\* What the parts of a request are makes it one.
LEMMA HoldType ==
    ASSUME NEW pc \in Pc, NEW u \in User \cup {None}, NEW r \in Row \cup {None},
           NEW sets \in SUBSET Column, NEW item \in Nat
    PROVE  Hold(pc, u, r, sets, item) \in Request
BY DEF Hold, Request

LEMMA DoneType ==
    ASSUME TypeOK, NEW t \in Web, Done(t)
    PROVE  web' \in [Web -> Request]
BY IdleType DEF TypeOK, Done

LEMMA ExposeType ==
    ASSUME TypeOK, NEW u \in User, NEW written \in SUBSET Field, Expose(u, written)
    PROVE  exposed' \subseteq User \X Field /\ exposed \subseteq exposed'
BY DEF TypeOK, Expose

LEMMA SetColumnType ==
    ASSUME TypeOK, NEW u \in User, NEW f \in {"password", "login"}, rows[u] # None,
           meant[u] # None, SetColumn(u, f, stamp + 1)
    PROVE  /\ rows' \in [User -> Row \cup {None}]
           /\ meant' \in [User -> Row \cup {None}]
           /\ exposed' \subseteq User \X Field
<1>1. rows[u] \in Row /\ meant[u] \in Row /\ stamp + 1 \in Stamp
  BY DEF TypeOK, Stamp
<1>2. /\ [rows[u] EXCEPT ![f] = stamp + 1] \in Row
      /\ [meant[u] EXCEPT ![f] = stamp + 1] \in Row
  <2>1. CASE f = "password"
    BY <1>1, <2>1 DEF Row
  <2>2. CASE f = "login"
    BY <1>1, <2>2 DEF Row
  <2> QED BY <2>1, <2>2
<1>3. /\ rows' = [rows EXCEPT ![u] = [rows[u] EXCEPT ![f] = stamp + 1]]
      /\ meant' = [meant EXCEPT ![u] = [meant[u] EXCEPT ![f] = stamp + 1]]
  BY DEF SetColumn
<1>4. exposed' \subseteq User \X Field
  BY ExposeType DEF SetColumn, Field
<1> QED BY <1>2, <1>3, <1>4 DEF TypeOK

LEMMA SaveRowType ==
    ASSUME TypeOK, NEW u \in User, NEW r \in Row, NEW sets \in SUBSET Column,
           meant[u] # None, SaveRow(u, r, sets)
    PROVE  /\ rows' \in [User -> Row \cup {None}]
           /\ meant' \in [User -> Row \cup {None}]
           /\ exposed' \subseteq User \X Field
<1>1. meant[u] \in Row
  BY DEF TypeOK
<1> DEFINE m == [f \in DOMAIN r |-> IF f \in sets THEN r[f] ELSE meant[u][f]]
<1>2. m = [email |-> m["email"], active |-> m["active"], suspended |-> m["suspended"],
           password |-> m["password"], login |-> m["login"]]
  BY DEF Row
<1>3. m["email"] \in Email /\ m["active"] \in BOOLEAN /\ m["suspended"] \in BOOLEAN
      /\ m["password"] \in Stamp /\ m["login"] \in Stamp
  BY <1>1 DEF Row
<1>4. m \in Row
  BY <1>2, <1>3, Zenon DEF Row
<1>5. meant' = [meant EXCEPT ![u] = m]
  BY DEF SaveRow
<1> HIDE DEF m
<1>6. exposed' \subseteq User \X Field
  BY ExposeType DEF SaveRow, Field
<1> QED BY <1>4, <1>5, <1>6 DEF TypeOK, SaveRow

LEMMA OpenSessionType ==
    ASSUME TypeOK, NEW t \in Web, web[t].user \in User, NEW barred \in BOOLEAN,
           OpenSession(t, barred)
    PROVE  /\ tokens' \in Seq(Refreshable)
           /\ access' \subseteq Claims
           /\ opened' \in Seq(BOOLEAN)
<1> DEFINE c == [user |-> web[t].user, paid |-> paid[web[t].user], barred |-> barred,
                 session |-> Len(opened) + 1]
           ok == paid[c.user] /\ (~rows'[c.user].suspended \/ t \in overtaken)
<1>1. c \in Claims
  BY DEF TypeOK, Claims
<1>2. [claims |-> c, black |-> FALSE] \in Refreshable
  BY <1>1 DEF Refreshable
<1>3. ok \in BOOLEAN
  OBVIOUS
<1>4. /\ tokens' = Append(tokens, [claims |-> c, black |-> FALSE])
      /\ access' = access \cup {c}
      /\ opened' = Append(opened, ok)
  BY DEF OpenSession, Begins
<1> HIDE DEF c, ok
<1> QED BY <1>1, <1>2, <1>3, <1>4 DEF TypeOK

LEMMA InitBase == Init => Base
<1> SUFFICES ASSUME Init PROVE Base
  OBVIOUS
<1>1. TypeOK
  BY IdleType, MaxAskedAssumption DEF Init, TypeOK, Refreshable, Link
<1>2. Holding /\ Staleness /\ Overtaken
  BY DEF Init, Holding, Holds, Staleness, Overtaken, Stale, Idle, Hold, Loaded, Existing
<1> QED BY <1>1, <1>2 DEF Init, Base, Known, Aged

LEMMA AskType == ASSUME TypeOK, Ask PROVE asked' \in 0 .. MaxAsked
BY MaxAskedAssumption DEF TypeOK, Ask

\* A request begins with what it holds.
LEMMA Begun ==
    ASSUME Base, NEW t \in Web, Begin(t)
    PROVE  \E r \in Request : web' = [web EXCEPT ![t] = r] /\ Holds(r)'
<1> USE DEF Base
<1>1. \A u \in User : rows[u] # None => rows[u] \in Row /\ rows[u].password <= stamp
  BY DEF TypeOK, Aged
<1>2. \A pc \in {"login", "change", "save"}, u \in User, row \in Row, sets \in SUBSET Column :
        rows'[u] # None /\ row.password <= stamp' =>
            Hold(pc, u, row, sets, 0) \in Request /\ Holds(Hold(pc, u, row, sets, 0))'
  BY HoldType DEF Hold, Holds, Loaded, Existing, Pc
<1>3. ASSUME NEW u \in User, Login(t, u) \/ Change(t, u)
      PROVE  \E r \in Request : web' = [web EXCEPT ![t] = r] /\ Holds(r)'
  <2>1. rows[u] \in Row /\ rows[u].password <= stamp' /\ rows'[u] # None
    BY <1>1, <1>3 DEF Login, Change, SignedIn
  <2>2. \E pc \in {"login", "change"} : web' = [web EXCEPT ![t] = Hold(pc, u, rows[u], {}, 0)]
    BY <1>3 DEF Login, Change, Take
  <2> QED BY <1>2, <2>1, <2>2
<1>4. ASSUME NEW u \in User, NEW e \in Email, Register(t, u, e)
      PROVE  \E r \in Request : web' = [web EXCEPT ![t] = r] /\ Holds(r)'
  <2> DEFINE row == [email |-> e, active |-> TRUE, suspended |-> FALSE,
                     password |-> stamp + 1, login |-> 0]
  <2>1. row \in Row /\ row.password <= stamp' /\ ~row.suspended
    BY <1>4 DEF Register, Row, Stamp, TypeOK
  <2>2. web' = [web EXCEPT ![t] = Hold("register", u, row, {}, 0)]
    BY <1>4 DEF Register, Take
  <2> HIDE DEF row
  <2>3. Hold("register", u, row, {}, 0) \in Request
    BY <2>1, HoldType DEF Pc
  <2>4. \A q \in Row : q.password <= stamp' /\ ~q.suspended => Holds(Hold("register", u, q, {}, 0))'
    BY DEF Hold, Holds, Loaded, Existing
  <2> QED BY <2>1, <2>2, <2>3, <2>4
<1>5. ASSUME NEW u \in User, NEW e \in Email, Profile(t, u, e)
      PROVE  \E r \in Request : web' = [web EXCEPT ![t] = r] /\ Holds(r)'
  <2> DEFINE row == [rows[u] EXCEPT !.email = e]
  <2>1. rows[u] \in Row /\ rows[u].password <= stamp' /\ rows'[u] # None
    BY <1>1, <1>5 DEF Profile, SignedIn
  <2>2. row \in Row /\ row.password <= stamp'
    BY <2>1 DEF Row
  <2>3. web' = [web EXCEPT ![t] = Hold("save", u, row, {"email"}, 0)]
    BY <1>5 DEF Profile, Take
  <2> HIDE DEF row
  <2> QED BY <1>2, <2>1, <2>2, <2>3 DEF Column
<1>6. ASSUME NEW u \in User, NEW f \in Column, AdminUserPatch(t, u, f)
      PROVE  \E r \in Request : web' = [web EXCEPT ![t] = r] /\ Holds(r)'
  <2> DEFINE row == [rows[u] EXCEPT ![f] = ~@]
  <2>1. rows[u] \in Row /\ rows[u].password <= stamp' /\ rows'[u] # None
        /\ f \in {"active", "suspended"}
    BY <1>1, <1>6 DEF AdminUserPatch
  <2>2. row \in Row /\ row.password <= stamp'
    <3>1. CASE f = "active"
      BY <2>1, <3>1 DEF Row
    <3>2. CASE f = "suspended"
      BY <2>1, <3>2 DEF Row
    <3> QED BY <2>1, <3>1, <3>2
  <2>3. web' = [web EXCEPT ![t] = Hold("save", u, row, {f}, 0)]
    BY <1>6 DEF AdminUserPatch, Take
  <2> HIDE DEF row
  <2> QED BY <1>2, <2>1, <2>2, <2>3
<1>7. ASSUME NEW k \in DOMAIN tokens, Refresh(t, k)
      PROVE  \E r \in Request : web' = [web EXCEPT ![t] = r] /\ Holds(r)'
  <2>1. web' = [web EXCEPT ![t] = Hold("refresh", None, None, {}, k)] /\ tokens' = tokens
    BY <1>7 DEF Refresh, Take
  <2>2. k \in Nat
    BY DEF TypeOK
  <2>3. Hold("refresh", None, None, {}, k) \in Request
    BY <2>2, HoldType DEF Pc
  <2>4. Holds(Hold("refresh", None, None, {}, k))'
    BY <2>1 DEF Hold, Holds, Loaded, Existing
  <2> QED BY <2>1, <2>3, <2>4
<1>8. ASSUME NEW i \in DOMAIN links, ResetConfirm(t, i)
      PROVE  \E r \in Request : web' = [web EXCEPT ![t] = r] /\ Holds(r)'
  <2>1. web' = [web EXCEPT ![t] = Hold("reset", links[i].user, None, {}, i)]
        /\ links' = links /\ rows' = rows
    BY <1>8 DEF ResetConfirm, Take
  <2>0. links[i] \in Link /\ i \in Nat
    BY DEF TypeOK
  <2>2. i \in Nat /\ links[i].user \in User /\ rows[links[i].user] # None
    BY <2>0 DEF Link, Aged
  <2>3. Hold("reset", links[i].user, None, {}, i) \in Request
    BY <2>2, HoldType DEF Pc
  <2>4. \A u \in User : u = links'[i].user /\ rows'[u] # None =>
            Holds(Hold("reset", u, None, {}, i))'
    BY <2>1 DEF Hold, Holds, Loaded, Existing
  <2> QED BY <2>1, <2>2, <2>3, <2>4
<1> QED BY <1>3, <1>4, <1>5, <1>6, <1>7, <1>8 DEF Begin

LEMMA BeginType ==
    ASSUME Base, NEW t \in Web, Begin(t)
    PROVE  TypeOK'
<1> USE DEF Base
<1>1. web' \in [Web -> Request]
  BY Begun DEF TypeOK
<1>2. ASSUME NEW k \in DOMAIN tokens, Refresh(t, k) PROVE TypeOK'
  <2>1. tokens[k] \in Refreshable
    BY DEF TypeOK
  <2>2. tokens[k].claims.session \in Nat
    BY <2>1 DEF Refreshable, Claims
  <2>3. forked' \subseteq Nat
    BY <1>2, <2>2 DEF Refresh, UseToken, TypeOK
  <2> QED BY <1>1, <1>2, <2>3, AskType DEF Refresh, UseToken, TypeOK
<1>3. ASSUME NEW u \in User, NEW e \in Email, Register(t, u, e) PROVE TypeOK'
  BY <1>1, <1>3, AskType DEF Register, history, TypeOK
<1>4. ASSUME NEW u \in User, Login(t, u) \/ Change(t, u) PROVE TypeOK'
  BY <1>1, <1>4, AskType DEF Login, Change, history, TypeOK
<1>5. ASSUME NEW u \in User, NEW e \in Email, Profile(t, u, e) PROVE TypeOK'
  BY <1>1, <1>5, AskType DEF Profile, history, TypeOK
<1>6. ASSUME NEW u \in User, NEW f \in Column, AdminUserPatch(t, u, f) PROVE TypeOK'
  BY <1>1, <1>6, AskType DEF AdminUserPatch, history, TypeOK
<1>7. ASSUME NEW i \in DOMAIN links, ResetConfirm(t, i) PROVE TypeOK'
  BY <1>1, <1>7, AskType DEF ResetConfirm, history, TypeOK
<1> QED BY <1>2, <1>3, <1>4, <1>5, <1>6, <1>7 DEF Begin

\* Requests that end.
LEMMA EndType ==
    ASSUME Base, NEW t \in Web, WebStep(t)
    PROVE  TypeOK'
<1> USE DEF Base
<1>h. web[t] \in Request /\ Holds(web[t])
  BY DEF TypeOK, Holding
<1>s. stamp + 1 \in Nat
  BY DEF TypeOK
<1>1. ASSUME RegisterCreate(t) PROVE TypeOK'
  <2> DEFINE u == web[t].user
  <2>1. u \in User /\ web[t].row \in Row
    BY <1>1, <1>h DEF RegisterCreate, At, Holds, Loaded
  <2>2. web' \in [Web -> Request]
    BY <1>1, DoneType DEF RegisterCreate
  <2>3. ASSUME OpenSession(t, FALSE)
        PROVE  tokens' \in Seq(Refreshable) /\ access' \subseteq Claims
               /\ opened' \in Seq(BOOLEAN)
    BY <2>1, <2>3, OpenSessionType
  <2>4. tokens' \in Seq(Refreshable) /\ access' \subseteq Claims /\ opened' \in Seq(BOOLEAN)
    BY <1>1, <2>3 DEF RegisterCreate, TypeOK
  <2>5. rows' \in [User -> Row \cup {None}] /\ meant' \in [User -> Row \cup {None}]
    BY <1>1, <2>1 DEF RegisterCreate, TypeOK
  <2> QED BY <1>1, <2>2, <2>4, <2>5 DEF RegisterCreate, TypeOK
<1>2. ASSUME LoginMint(t) PROVE TypeOK'
  <2> DEFINE u == web[t].user
  <2>1. u \in User /\ rows[u] # None /\ web[t].row \in Row
    BY <1>2, <1>h DEF LoginMint, At, Holds, Loaded, Existing
  <2>2. meant[u] # None /\ web[t].row.suspended \in BOOLEAN
    BY <2>1 DEF Known, Row
  <2>3. web' \in [Web -> Request]
    BY <1>2, DoneType DEF LoginMint
  <2>4. SetColumn(u, "login", stamp + 1)
    BY <1>2 DEF LoginMint
  <2>5. rows' \in [User -> Row \cup {None}] /\ meant' \in [User -> Row \cup {None}]
        /\ exposed' \subseteq User \X Field
    BY <2>1, <2>2, <2>4, SetColumnType
  <2>6. ASSUME OpenSession(t, web[t].row.suspended)
        PROVE  tokens' \in Seq(Refreshable) /\ access' \subseteq Claims
               /\ opened' \in Seq(BOOLEAN)
    BY <2>1, <2>2, <2>6, OpenSessionType
  <2>7. tokens' \in Seq(Refreshable) /\ access' \subseteq Claims /\ opened' \in Seq(BOOLEAN)
    BY <1>2, <2>6 DEF LoginMint, TypeOK
  <2> QED BY <1>2, <1>s, <2>3, <2>5, <2>7 DEF LoginMint, TypeOK
<1>3. ASSUME RefreshMint(t) PROVE TypeOK'
  <2> DEFINE k == web[t].item
             c == tokens[k].claims
  <2>1. k \in DOMAIN tokens
    BY <1>3, <1>h DEF RefreshMint, At, Holds
  <2>a. tokens[k] \in Refreshable
    BY <2>1 DEF TypeOK
  <2>2. tokens[k] \in Refreshable /\ c \in Claims
    BY <2>a DEF Refreshable
  <2>3. [tokens[k] EXCEPT !.black = TRUE] \in Refreshable
        /\ [claims |-> c, black |-> FALSE] \in Refreshable
    BY <2>2 DEF Refreshable
  <2>4. [tokens EXCEPT ![k] = [tokens[k] EXCEPT !.black = TRUE]] \in Seq(Refreshable)
    BY <2>1, <2>3 DEF TypeOK
  <2>5. tokens' = Append([tokens EXCEPT ![k] = [tokens[k] EXCEPT !.black = TRUE]],
                         [claims |-> c, black |-> FALSE])
        /\ access' = access \cup {c}
    BY <1>3 DEF RefreshMint
  <2> HIDE DEF k, c
  <2>6. tokens' \in Seq(Refreshable) /\ access' \subseteq Claims
    BY <2>2, <2>3, <2>4, <2>5 DEF TypeOK
  <2>7. web' \in [Web -> Request]
    BY <1>3, DoneType DEF RefreshMint
  <2> QED BY <1>3, <2>6, <2>7 DEF RefreshMint, history, TypeOK
<1>4. ASSUME PatchSave(t) PROVE TypeOK'
  <2> DEFINE u == web[t].user
  <2>1. u \in User /\ rows[u] # None /\ web[t].row \in Row /\ web[t].sets \in SUBSET Column
    BY <1>4, <1>h DEF PatchSave, At, Holds, Loaded, Existing, Request
  <2>2. meant[u] # None
    BY <2>1 DEF Known
  <2>3. rows' \in [User -> Row \cup {None}] /\ meant' \in [User -> Row \cup {None}]
        /\ exposed' \subseteq User \X Field
    BY <1>4, <2>1, <2>2, SaveRowType DEF PatchSave
  <2>4. web' \in [Web -> Request]
    BY <1>4, DoneType DEF PatchSave
  <2>5. overtaken' \subseteq Web
    BY <1>4 DEF PatchSave, Overtake, TypeOK
  <2> QED BY <1>4, <2>3, <2>4, <2>5 DEF PatchSave, TypeOK
<1>5. ASSUME ChangeSave(t) PROVE TypeOK'
  <2> DEFINE u == web[t].user
  <2>1. u \in User /\ rows[u] # None
    BY <1>5, <1>h DEF ChangeSave, At, Holds, Existing
  <2>2. meant[u] # None
    BY <2>1 DEF Known
  <2>3. rows' \in [User -> Row \cup {None}] /\ meant' \in [User -> Row \cup {None}]
        /\ exposed' \subseteq User \X Field
    BY <1>5, <2>1, <2>2, SetColumnType DEF ChangeSave
  <2>4. web' \in [Web -> Request]
    BY <1>5, DoneType DEF ChangeSave
  <2> QED BY <1>5, <1>s, <2>3, <2>4 DEF ChangeSave, TypeOK
<1>6. ASSUME ResetSave(t) PROVE TypeOK'
  <2> DEFINE u == web[t].user
             i == web[t].item
  <2>1. u \in User /\ rows[u] # None /\ i \in DOMAIN links
    BY <1>6, <1>h DEF ResetSave, At, Holds, Existing
  <2>2. meant[u] # None
    BY <2>1 DEF Known
  <2>3. rows' \in [User -> Row \cup {None}] /\ meant' \in [User -> Row \cup {None}]
        /\ exposed' \subseteq User \X Field
    BY <1>6, <2>1, <2>2, SetColumnType DEF ResetSave
  <2>4. links[i] \in Link /\ i \in Nat
    BY <2>1 DEF TypeOK
  <2>5. [links[i] EXCEPT !.uses = @ + 1] \in Link
    BY <2>4 DEF Link
  <2>6. links' = [links EXCEPT ![i] = [links[i] EXCEPT !.uses = @ + 1]]
    BY <1>6 DEF ResetSave
  <2>7. links' \in Seq(Link)
    BY <2>1, <2>5, <2>6 DEF TypeOK
  <2>8. contested' \subseteq Nat
    BY <1>6, <2>4 DEF ResetSave, TypeOK
  <2>9. web' \in [Web -> Request]
    BY <1>6, DoneType DEF ResetSave
  <2> QED BY <1>6, <1>s, <2>3, <2>7, <2>8, <2>9 DEF ResetSave, TypeOK
<1> QED BY <1>1, <1>2, <1>3, <1>4, <1>5, <1>6 DEF WebStep

LEMMA NextType == ASSUME Base, [Next]_vars PROVE TypeOK'
<1> USE DEF Base
<1>1. ASSUME NEW u \in User, ResetRequest(u) PROVE TypeOK'
  <2> DEFINE l == [user |-> u, email |-> rows[u].email, password |-> rows[u].password,
                   login |-> rows[u].login, uses |-> 0]
  <2>1. rows[u] \in Row
    BY <1>1 DEF ResetRequest, TypeOK
  <2>2. l \in Link
    BY <2>1 DEF Link, Row
  <2>3. links' = Append(links, l)
    BY <1>1 DEF ResetRequest
  <2> HIDE DEF l
  <2>4. links' \in Seq(Link)
    BY <2>2, <2>3 DEF TypeOK
  <2> QED BY <1>1, <2>4, AskType DEF ResetRequest, history, TypeOK
<1>2. ASSUME NEW u \in User, PaidChanges(u) PROVE TypeOK'
  BY <1>2, AskType DEF PaidChanges, history, TypeOK
<1>3. ASSUME NEW u \in User, NEW k \in DOMAIN tokens, Logout(u, k) PROVE TypeOK'
  <2>1. tokens[k] \in Refreshable
    BY DEF TypeOK
  <2>2. [tokens[k] EXCEPT !.black = TRUE] \in Refreshable
        /\ tokens[k].claims.session \in Nat
    BY <2>1 DEF Refreshable, Claims
  <2>3. tokens' = [tokens EXCEPT ![k] = [tokens[k] EXCEPT !.black = TRUE]]
    BY <1>3 DEF Logout
  <2>4. tokens' \in Seq(Refreshable)
    BY <2>2, <2>3 DEF TypeOK
  <2>5. forked' \subseteq Nat
    BY <1>3, <2>2 DEF Logout, UseToken, TypeOK
  <2> QED BY <1>3, <2>4, <2>5, AskType DEF Logout, UseToken, TypeOK
<1>4. ASSUME NEW c \in access, AccessExpires(c) PROVE TypeOK'
  BY <1>4 DEF AccessExpires, history, TypeOK
<1>5. CASE UNCHANGED vars
  BY <1>5 DEF vars, history, TypeOK
<1> QED BY <1>1, <1>2, <1>3, <1>4, <1>5, BeginType, EndType DEF Next

-----------------------------------------------------------------------------
(* How rows, tokens and links may change *)

\* Rows are made by register, change in one column or are saved whole.
Created(u, r) ==
    /\ r \in Row /\ r.password <= stamp /\ rows[u] = None
    /\ rows' = [rows EXCEPT ![u] = r] /\ meant' = [meant EXCEPT ![u] = r]
    /\ UNCHANGED exposed
Stamped(u, f) == rows[u] # None /\ SetColumn(u, f, stamp + 1) /\ stamp' = stamp + 1
Saved(u, r, sets) ==
    /\ r \in Row /\ r.password <= stamp /\ rows[u] # None
    /\ \A f \in Field \ sets : r[f] = rows[u][f] \/ <<u, f>> \in exposed
    /\ SaveRow(u, r, sets) /\ Overtake(u) /\ UNCHANGED <<stamp, links>>

LEMMA RowsStep ==
    ASSUME Base, [Next]_vars
    PROVE  \/ UNCHANGED <<rows, meant, exposed>> /\ stamp <= stamp'
           \/ \E u \in User, r \in Row : Created(u, r) /\ UNCHANGED <<stamp, links>>
           \/ \E u \in User, f \in {"password", "login"} : Stamped(u, f)
           \/ \E u \in User, r \in Row, sets \in SUBSET {"email", "active", "suspended"} :
                Saved(u, r, sets)
<1> USE DEF Base
<1>0. \A t \in Web : web[t] \in Request /\ Holds(web[t])
  BY DEF TypeOK, Holding
<1>s. stamp <= stamp /\ stamp <= stamp + 1
  BY DEF TypeOK
<1>1. ASSUME NEW t \in Web, Begin(t) PROVE UNCHANGED <<rows, meant, exposed>> /\ stamp <= stamp'
  BY <1>1, <1>s DEF Begin, Login, Change, Register, Profile, AdminUserPatch, Refresh,
                    ResetConfirm, UseToken, history
<1>2. ASSUME NEW t \in Web, RegisterCreate(t)
      PROVE  \/ UNCHANGED <<rows, meant, exposed>> /\ stamp <= stamp'
             \/ \E u \in User, r \in Row : Created(u, r) /\ UNCHANGED <<stamp, links>>
  <2>1. web[t].user \in User /\ web[t].row \in Row /\ web[t].row.password <= stamp
    BY <1>0, <1>2 DEF RegisterCreate, At, Holds, Loaded
  <2> QED BY <1>2, <2>1, <1>s DEF RegisterCreate, Created
<1>3. ASSUME NEW t \in Web, LoginMint(t) \/ ChangeSave(t) \/ ResetSave(t)
      PROVE  \E u \in User, f \in {"password", "login"} : Stamped(u, f)
  <2>1. web[t].user \in User /\ rows[web[t].user] # None
    BY <1>0, <1>3 DEF LoginMint, ChangeSave, ResetSave, At, Holds, Existing
  <2>2. Stamped(web[t].user, "login") \/ Stamped(web[t].user, "password")
    BY <1>3, <2>1 DEF LoginMint, ChangeSave, ResetSave, Stamped
  <2> QED BY <2>1, <2>2
<1>4. ASSUME NEW t \in Web, PatchSave(t)
      PROVE  \E u \in User, r \in Row, sets \in SUBSET {"email", "active", "suspended"} :
                Saved(u, r, sets)
  <2>1. /\ web[t].user \in User /\ rows[web[t].user] # None /\ web[t].row \in Row
        /\ web[t].row.password <= stamp
        /\ web[t].sets \in SUBSET {"email", "active", "suspended"}
    BY <1>0, <1>4 DEF PatchSave, At, Holds, Loaded, Existing, Request, Column
  <2>2. \A f \in Field \ web[t].sets :
            web[t].row[f] = rows[web[t].user][f] \/ <<web[t].user, f>> \in exposed
    BY <1>4 DEF PatchSave, At, Staleness, Stale
  <2> QED BY <1>4, <2>1, <2>2 DEF PatchSave, Saved
<1>5. ASSUME NEW t \in Web, RefreshMint(t)
      PROVE  UNCHANGED <<rows, meant, exposed>> /\ stamp <= stamp'
  BY <1>5, <1>s DEF RefreshMint, history
<1>6. ASSUME (\E u \in User : ResetRequest(u) \/ PaidChanges(u))
             \/ (\E u \in User, k \in DOMAIN tokens : Logout(u, k))
             \/ (\E c \in access : AccessExpires(c)) \/ UNCHANGED vars
      PROVE  UNCHANGED <<rows, meant, exposed>> /\ stamp <= stamp'
  BY <1>6, <1>s DEF ResetRequest, PaidChanges, Logout, UseToken, AccessExpires, vars, history
<1> QED BY <1>1, <1>2, <1>3, <1>4, <1>5, <1>6 DEF Next, WebStep

\* One column of a row, changed.
LEMMA OneColumn ==
    ASSUME NEW r \in Row, NEW f \in {"password", "login"}, NEW v \in Stamp
    PROVE  /\ [r EXCEPT ![f] = v] \in Row
           /\ [r EXCEPT ![f] = v].password = IF f = "password" THEN v ELSE r.password
<1>1. CASE f = "password"
  BY <1>1 DEF Row
<1>2. CASE f = "login"
  BY <1>2 DEF Row
<1> QED BY <1>1, <1>2

LEMMA StampedRows ==
    ASSUME Base, NEW u \in User, NEW f \in {"password", "login"}, Stamped(u, f)
    PROVE  /\ rows[u] \in Row /\ meant[u] \in Row /\ stamp + 1 \in Stamp
           /\ rows' = [rows EXCEPT ![u] = [rows[u] EXCEPT ![f] = stamp + 1]]
           /\ meant' = [meant EXCEPT ![u] = [meant[u] EXCEPT ![f] = stamp + 1]]
<1>1. rows[u] \in Row /\ meant[u] \in Row /\ stamp + 1 \in Stamp
  BY DEF Base, Known, Stamped, TypeOK, Stamp
<1> QED BY <1>1 DEF Stamped, SetColumn

\* Saving a stamp touches one column, of one user.
LEMMA KeptColumns ==
    ASSUME Base, NEW u \in User, NEW f \in {"password", "login"}, Stamped(u, f)
    PROVE  /\ \A v \in User \ {u} : rows'[v] = rows[v] /\ meant'[v] = meant[v]
           /\ \A g \in Field \ {f} : rows'[u][g] = rows[u][g] /\ meant'[u][g] = meant[u][g]
           /\ rows'[u][f] = stamp + 1 /\ meant'[u][f] = stamp + 1
           /\ Expose(u, {f})
<1>1. Expose(u, {f})
  BY DEF Stamped, SetColumn
<1>2. \A r \in Row : DOMAIN r = Field
  BY DEF Row, Field, Column
<1>3. u \in DOMAIN rows /\ u \in DOMAIN meant
  BY DEF Base, TypeOK
<1>4. rows[u] \in Row /\ meant[u] \in Row
      /\ rows' = [rows EXCEPT ![u] = [rows[u] EXCEPT ![f] = stamp + 1]]
      /\ meant' = [meant EXCEPT ![u] = [meant[u] EXCEPT ![f] = stamp + 1]]
  BY StampedRows
<1>5. rows'[u] = [rows[u] EXCEPT ![f] = stamp + 1]
      /\ meant'[u] = [meant[u] EXCEPT ![f] = stamp + 1]
  BY <1>3, <1>4, Zenon
<1>6. f \in Field
  BY DEF Field
<1>7. \A v \in User \ {u} : rows'[v] = rows[v] /\ meant'[v] = meant[v]
  BY <1>4 DEF Base, TypeOK
<1> QED BY <1>1, <1>2, <1>4, <1>5, <1>6, <1>7

LEMMA SavedRows ==
    ASSUME Base, NEW u \in User, NEW r \in Row,
           NEW sets \in SUBSET {"email", "active", "suspended"}, Saved(u, r, sets)
    PROVE  /\ rows[u] \in Row /\ meant[u] \in Row
           /\ rows' = [rows EXCEPT ![u] = r]
           /\ meant' = [meant EXCEPT ![u] =
                [f \in DOMAIN r |-> IF f \in sets THEN r[f] ELSE meant[u][f]]]
           /\ exposed \subseteq exposed' /\ Expose(u, sets)
           /\ \A f \in Field \ sets : r[f] = rows[u][f] \/ <<u, f>> \in exposed
<1>1. rows[u] \in Row /\ meant[u] \in Row
  BY DEF Base, Known, Saved, TypeOK
<1> QED BY <1>1 DEF Saved, SaveRow, Expose

\* A session begins for somebody who has a row; his row was not suspended when the
\* request loaded it, unless the claims say so.
Opens(t, barred) ==
    /\ web[t].user \in User
    /\ OpenSession(t, barred)
    /\ rows'[web[t].user].suspended => barred \/ t \in overtaken

\* Sessions begin, go on, end, and lose access tokens.
LEMMA TokensStep ==
    ASSUME Base, [Next]_vars
    PROVE  \/ UNCHANGED <<tokens, opened>> /\ access' \subseteq access
           \/ \E t \in Web, barred \in BOOLEAN : Opens(t, barred)
           \/ \E t \in Web : RefreshMint(t)
           \/ \E u \in User, k \in DOMAIN tokens : Logout(u, k)
<1> USE DEF Base
<1>0. \A t \in Web : Holds(web[t])
  BY DEF Holding
<1>1. ASSUME NEW t \in Web, Begin(t) PROVE UNCHANGED <<tokens, opened, access>>
  BY <1>1 DEF Begin, Login, Change, Register, Profile, AdminUserPatch, Refresh,
              ResetConfirm, UseToken, history
<1>2. ASSUME NEW t \in Web, RegisterCreate(t)
      PROVE  UNCHANGED <<tokens, opened, access>> \/ Opens(t, FALSE)
  <2>1. web[t].user \in User /\ web[t].row \in Row
    BY <1>0, <1>2 DEF RegisterCreate, At, Holds, Loaded
  <2>2. CASE rows' = [rows EXCEPT ![web[t].user] = web[t].row] /\ OpenSession(t, FALSE)
    <3>1. rows'[web[t].user] = web[t].row
      BY <2>1, <2>2 DEF TypeOK
    <3>2. ~web[t].row.suspended
      BY <1>0, <1>2 DEF RegisterCreate, At, Holds
    <3> QED BY <2>1, <2>2, <3>1, <3>2 DEF Opens
  <2> QED BY <1>2, <2>2 DEF RegisterCreate
<1>3. ASSUME NEW t \in Web, LoginMint(t)
      PROVE  \/ UNCHANGED <<tokens, opened, access>>
             \/ web[t].row.suspended \in BOOLEAN /\ Opens(t, web[t].row.suspended)
  <2>1. /\ web[t].user \in User /\ web[t].row \in Row /\ rows[web[t].user] # None
        /\ web[t].pc = "login"
    BY <1>0, <1>3 DEF LoginMint, At, Holds, Loaded, Existing
  <2>2. Stamped(web[t].user, "login")
    BY <1>3, <2>1 DEF LoginMint, Stamped
  <2>3. rows'[web[t].user].suspended = rows[web[t].user].suspended
    BY <2>1, <2>2, KeptColumns DEF Column, Field
  <2>4. web[t].row.suspended \in BOOLEAN
    BY <2>1 DEF Row
  <2>5. rows[web[t].user].suspended => web[t].row.suspended \/ t \in overtaken
    BY <2>1 DEF Overtaken
  <2> QED BY <1>3, <2>1, <2>3, <2>4, <2>5 DEF LoginMint, Opens
<1>5. ASSUME NEW t \in Web, PatchSave(t) \/ ChangeSave(t) \/ ResetSave(t)
      PROVE  UNCHANGED <<tokens, opened, access>>
  BY <1>5 DEF PatchSave, ChangeSave, ResetSave
<1>6. ASSUME (\E u \in User : ResetRequest(u) \/ PaidChanges(u))
             \/ (\E c \in access : AccessExpires(c)) \/ UNCHANGED vars
      PROVE  UNCHANGED <<tokens, opened>> /\ access' \subseteq access
  BY <1>6 DEF ResetRequest, PaidChanges, AccessExpires, vars, history
<1> QED BY <1>1, <1>2, <1>3, <1>5, <1>6 DEF Next, WebStep

\* Links are sent and used.
LEMMA LinksStep ==
    ASSUME Base, [Next]_vars
    PROVE  \/ UNCHANGED <<links, contested>>
           \/ \E u \in User : ResetRequest(u)
           \/ \E t \in Web : ResetSave(t)
<1>1. ASSUME NEW t \in Web, Begin(t) PROVE UNCHANGED <<links, contested>>
  BY <1>1 DEF Begin, Login, Change, Register, Profile, AdminUserPatch, Refresh,
              ResetConfirm, UseToken, history
<1>2. ASSUME NEW t \in Web, RegisterCreate(t) \/ LoginMint(t) \/ RefreshMint(t)
                            \/ PatchSave(t) \/ ChangeSave(t)
      PROVE  UNCHANGED <<links, contested>>
  BY <1>2 DEF RegisterCreate, LoginMint, RefreshMint, PatchSave, ChangeSave, history
<1>3. ASSUME (\E u \in User : PaidChanges(u))
             \/ (\E u \in User, k \in DOMAIN tokens : Logout(u, k))
             \/ (\E c \in access : AccessExpires(c)) \/ UNCHANGED vars
      PROVE  UNCHANGED <<links, contested>>
  BY <1>3 DEF PaidChanges, Logout, UseToken, AccessExpires, vars, history
<1> QED BY <1>1, <1>2, <1>3 DEF Next, WebStep

\* Nothing is forgotten.
LEMMA RowsStay ==
    ASSUME Base, [Next]_vars
    PROVE  stamp <= stamp' /\ \A u \in User : rows[u] # None => rows'[u] # None
<1> USE DEF Base
<1>1. ASSUME NEW u \in User, NEW r \in Row, Created(u, r), UNCHANGED stamp
      PROVE  stamp <= stamp' /\ \A v \in User : rows[v] # None => rows'[v] # None
  BY <1>1, NoneIsNoRow DEF Created, TypeOK
<1>2. ASSUME NEW u \in User, NEW f \in {"password", "login"}, Stamped(u, f)
      PROVE  stamp <= stamp' /\ \A v \in User : rows[v] # None => rows'[v] # None
  <2>1. meant[u] # None
    BY <1>2 DEF Known, Stamped
  <2>2. rows[u] \in Row /\ [rows[u] EXCEPT ![f] = stamp + 1] \in Row
    <3>1. rows[u] \in Row /\ stamp + 1 \in Stamp
      BY <1>2 DEF Stamped, TypeOK, Stamp
    <3>2. CASE f = "password"
      BY <3>1, <3>2 DEF Row
    <3>3. CASE f = "login"
      BY <3>1, <3>3 DEF Row
    <3> QED BY <3>1, <3>2, <3>3
  <2>3. rows' = [rows EXCEPT ![u] = [rows[u] EXCEPT ![f] = stamp + 1]]
    BY <1>2 DEF Stamped, SetColumn
  <2>4. \A v \in User : rows'[v] = IF v = u THEN [rows[u] EXCEPT ![f] = stamp + 1] ELSE rows[v]
    BY <2>3 DEF TypeOK
  <2>5. stamp <= stamp'
    BY <1>2 DEF Stamped, TypeOK
  <2> QED BY <2>2, <2>4, <2>5, NoneIsNoRow
<1>3. ASSUME NEW u \in User, NEW r \in Row, NEW sets, Saved(u, r, sets)
      PROVE  stamp <= stamp' /\ \A v \in User : rows[v] # None => rows'[v] # None
  BY <1>3, NoneIsNoRow DEF Saved, SaveRow, TypeOK
<1> QED BY <1>1, <1>2, <1>3, RowsStep

LEMMA TokensStay == ASSUME Base, [Next]_vars PROVE DOMAIN tokens \subseteq DOMAIN tokens'
<1> USE DEF Base
<1>1. ASSUME NEW t \in Web, RefreshMint(t) PROVE DOMAIN tokens \subseteq DOMAIN tokens'
  <2> DEFINE old == [tokens EXCEPT ![web[t].item].black = TRUE]
             new == [claims |-> tokens[web[t].item].claims, black |-> FALSE]
  <2>1. tokens' = Append(old, new)
    BY <1>1 DEF RefreshMint
  <2>2. DOMAIN old = DOMAIN tokens /\ Len(old) = Len(tokens) /\ Len(tokens) \in Nat
    BY DEF TypeOK
  <2>3. DOMAIN tokens = 1 .. Len(tokens)
    BY DEF TypeOK
  <2> HIDE DEF old, new
  <2>4. DOMAIN Append(old, new) = 1 .. Len(tokens) + 1
    BY <2>2
  <2> QED BY <2>1, <2>2, <2>3, <2>4
<1>2. ASSUME NEW t \in Web, NEW barred, Opens(t, barred)
      PROVE  DOMAIN tokens \subseteq DOMAIN tokens'
  BY <1>2 DEF Opens, OpenSession, Begins, TypeOK
<1> QED BY <1>1, <1>2, TokensStep DEF Logout

LEMMA LinksStay ==
    ASSUME Base, [Next]_vars, NEW i \in DOMAIN links
    PROVE  /\ i \in DOMAIN links'
           /\ links'[i].user = links[i].user /\ links'[i].password = links[i].password
           /\ links'[i].uses >= links[i].uses
<1> USE DEF Base
<1>0. links[i] \in Link
  BY DEF TypeOK
<1>1. ASSUME NEW u \in User, ResetRequest(u)
      PROVE  i \in DOMAIN links' /\ links'[i] = links[i]
  BY <1>1 DEF ResetRequest, TypeOK
<1>2. ASSUME NEW t \in Web, ResetSave(t)
      PROVE  /\ i \in DOMAIN links'
             /\ links'[i].user = links[i].user /\ links'[i].password = links[i].password
             /\ links'[i].uses >= links[i].uses
  <2>1. PICK j : links' = [links EXCEPT ![j] = [links[j] EXCEPT !.uses = links[j].uses + 1]]
    BY <1>2 DEF ResetSave
  <2>2. i \in DOMAIN links'
        /\ (links'[i] = links[i] \/ links'[i] = [links[i] EXCEPT !.uses = links[i].uses + 1])
    BY <2>1
  <2> QED BY <1>0, <2>2 DEF Link
<1>3. links[i].uses >= links[i].uses
  BY <1>0 DEF Link
<1> QED BY <1>1, <1>2, <1>3, LinksStep

-----------------------------------------------------------------------------
(* The invariant is inductive: requests hold what is there *)

\* What was held is still held.
LEMMA HoldsOn ==
    ASSUME Base, [Next]_vars, NEW r \in Request, Holds(r)
    PROVE  Holds(r)'
<1>1. r.pc \in Loaded => r.user \in User /\ r.row \in Row /\ r.row.password <= stamp'
  <2>1. ASSUME r.row \in Row, r.row.password <= stamp PROVE r.row.password <= stamp'
    <3>1. r.row.password \in Nat /\ stamp \in Nat /\ stamp' \in Nat /\ stamp <= stamp'
      BY <2>1, NextType, RowsStay DEF Base, TypeOK, Row, Stamp
    <3> QED BY <2>1, <3>1
  <2> QED BY <2>1 DEF Holds
<1>2. r.pc \in Existing => r.user \in User /\ rows'[r.user] # None
  BY RowsStay DEF Holds
<1>5. r.pc = "register" => ~r.row.suspended
  BY DEF Holds
<1>3. r.pc = "refresh" => r.item \in DOMAIN tokens'
  BY TokensStay DEF Holds
<1>4. r.pc = "reset" => r.item \in DOMAIN links' /\ r.user = links'[r.item].user
  BY LinksStay DEF Holds
<1> QED BY <1>1, <1>2, <1>3, <1>4, <1>5 DEF Holds

LEMMA WebStays ==
    ASSUME Base, [Next]_vars
    PROVE  \/ UNCHANGED web
           \/ \E t \in Web : Done(t)
           \/ \E t \in Web, r \in Request : web' = [web EXCEPT ![t] = r] /\ Holds(r)'
<1>1. ASSUME NEW t \in Web, WebStep(t) PROVE Done(t)
  BY <1>1 DEF WebStep, RegisterCreate, LoginMint, RefreshMint, PatchSave, ChangeSave, ResetSave
<1>2. ASSUME (\E u \in User : ResetRequest(u) \/ PaidChanges(u))
             \/ (\E u \in User, k \in DOMAIN tokens : Logout(u, k))
             \/ (\E c \in access : AccessExpires(c)) \/ UNCHANGED vars
      PROVE  UNCHANGED web
  BY <1>2 DEF ResetRequest, PaidChanges, Logout, AccessExpires, vars
<1> QED BY <1>1, <1>2, Begun DEF Next

LEMMA HoldingStep == ASSUME Base, [Next]_vars PROVE Holding'
<1> USE DEF Base
<1>1. \A r \in Request : Holds(r) => Holds(r)'
  BY HoldsOn
<1>2. Holds(Idle)'
  BY DEF Holds, Idle, Hold, Loaded, Existing
<1>3. \A s \in Web : \E r \in Request : web'[s] = r /\ Holds(r)'
  <2>1. \A s \in Web : web[s] \in Request /\ Holds(web[s])
    BY DEF TypeOK, Holding
  <2>2. \A s \in Web : web'[s] = web[s] \/ web'[s] = Idle
                       \/ \E r \in Request : web'[s] = r /\ Holds(r)'
    BY WebStays DEF TypeOK, Done
  <2> QED BY <1>1, <1>2, <2>1, <2>2, IdleType
<1> QED BY <1>3 DEF Holding

-----------------------------------------------------------------------------
(* Rows are as they were meant, and passwords grow *)

LEMMA KnownStep == ASSUME Base, [Next]_vars PROVE Known'
<1> USE DEF Base
<1>1. ASSUME NEW u \in User, NEW r \in Row, Created(u, r) PROVE Known'
  BY <1>1 DEF Created, Known, TypeOK
<1>2. ASSUME NEW u \in User, NEW f \in {"password", "login"}, Stamped(u, f) PROVE Known'
  <2>1. [rows[u] EXCEPT ![f] = stamp + 1] # None /\ [meant[u] EXCEPT ![f] = stamp + 1] # None
    BY <1>2, StampedRows, OneColumn, NoneIsNoRow
  <2>2. \A v \in User : v # u => rows'[v] = rows[v] /\ meant'[v] = meant[v]
    BY <1>2, StampedRows DEF TypeOK
  <2>3. rows'[u] # None /\ meant'[u] # None
    BY <1>2, <2>1, StampedRows DEF TypeOK
  <2> QED BY <2>2, <2>3 DEF Known
<1>3. ASSUME NEW u \in User, NEW r \in Row,
             NEW sets \in SUBSET {"email", "active", "suspended"}, Saved(u, r, sets)
      PROVE  Known'
  <2>1. meant[u] # None
    BY <1>3 DEF Saved, Known
  <2>2. r # None
    BY NoneIsNoRow
  <2>3. meant'[u] \in Row
    <3> DEFINE m == [f \in DOMAIN r |-> IF f \in sets THEN r[f] ELSE meant[u][f]]
    <3>1. m = [email |-> m["email"], active |-> m["active"], suspended |-> m["suspended"],
               password |-> m["password"], login |-> m["login"]]
      BY DEF Row
    <3>2. meant[u] \in Row
      BY <1>3, SavedRows
    <3>3. m["email"] \in Email /\ m["active"] \in BOOLEAN /\ m["suspended"] \in BOOLEAN
          /\ m["password"] \in Stamp /\ m["login"] \in Stamp
      BY <3>2 DEF Row
    <3>4. m \in Row
      BY <3>1, <3>3, Zenon DEF Row
    <3>5. meant' = [meant EXCEPT ![u] = m]
      BY <1>3, SavedRows
    <3> HIDE DEF m
    <3> QED BY <3>4, <3>5 DEF TypeOK
  <2>4. \A v \in User : v # u => rows'[v] = rows[v] /\ meant'[v] = meant[v]
    BY <1>3, SavedRows DEF TypeOK
  <2>5. rows'[u] = r
    BY <1>3, SavedRows DEF TypeOK
  <2> QED BY <2>2, <2>3, <2>4, <2>5, NoneIsNoRow DEF Known
<1> QED BY <1>1, <1>2, <1>3, RowsStep DEF Known

\* A request that writes only its own columns does as it was meant to.
LEMMA MeantStep == ASSUME Base, RowsAsMeant, [Next]_vars PROVE RowsAsMeant'
<1> USE DEF Base
<1>f. \A r \in Row : DOMAIN r = Field
  BY DEF Row, Field, Column
<1>k. Known'
  BY KnownStep
<1>1. ASSUME NEW u \in User, NEW r \in Row, Created(u, r) PROVE RowsAsMeant'
  BY <1>1 DEF Created, RowsAsMeant, TypeOK
<1>2. ASSUME NEW u \in User, NEW f \in {"password", "login"}, Stamped(u, f)
      PROVE  RowsAsMeant'
  <2>1. exposed \subseteq exposed' /\ rows[u] # None
    BY <1>2, KeptColumns DEF Expose, Stamped
  <2>2. ASSUME NEW v \in User, NEW g \in Field, rows'[v] # None, <<v, g>> \notin exposed'
        PROVE  rows'[v][g] = meant'[v][g]
    <3>1. rows[v] # None => rows[v][g] = meant[v][g]
      BY <2>1, <2>2 DEF RowsAsMeant
    <3> QED BY <1>2, <2>1, <2>2, <3>1, KeptColumns
  <2> QED BY <1>k, <2>2 DEF RowsAsMeant, Known
<1>3. ASSUME NEW u \in User, NEW r \in Row,
             NEW sets \in SUBSET {"email", "active", "suspended"}, Saved(u, r, sets)
      PROVE  RowsAsMeant'
  <2>1. \A v \in User : v # u => rows'[v] = rows[v] /\ meant'[v] = meant[v]
    BY <1>3, SavedRows DEF TypeOK
  <2>2. exposed \subseteq exposed' /\ rows[u] # None
    BY <1>3, SavedRows DEF Saved
  <2> DEFINE m == [f \in DOMAIN r |-> IF f \in sets THEN r[f] ELSE meant[u][f]]
  <2>3. rows'[u] = r /\ meant'[u] = m
    BY <1>3, SavedRows DEF TypeOK
  <2>4. ASSUME NEW g \in Field, <<u, g>> \notin exposed' PROVE m[g] = r[g]
    <3>1. rows[u][g] = meant[u][g]
      BY <2>2, <2>4 DEF RowsAsMeant
    <3>2. g \notin sets => r[g] = rows[u][g]
      BY <1>3, <2>2, <2>4, SavedRows
    <3> QED BY <1>f, <3>1, <3>2
  <2>5. ASSUME NEW v \in User, NEW g \in Field, rows'[v] # None, <<v, g>> \notin exposed'
        PROVE  rows'[v][g] = meant'[v][g]
    <3>1. CASE v = u
      BY <2>3, <2>4, <2>5, <3>1
    <3>2. CASE v # u
      BY <2>1, <2>2, <2>5, <3>2 DEF RowsAsMeant
    <3> QED BY <3>1, <3>2
  <2> QED BY <1>k, <2>5 DEF RowsAsMeant, Known
<1> QED BY <1>k, <1>1, <1>2, <1>3, RowsStep DEF RowsAsMeant

\* The password of a row becomes the newest there is, or stays, unless a PATCH
\* undoes something.
LEMMA PasswordsGrow ==
    ASSUME Base, [Next]_vars, NEW u \in User, rows[u] # None
    PROVE  /\ rows'[u] \in Row
           /\ rows'[u].password <= stamp'
           /\ exposed \subseteq exposed'
           /\ <<u, "password">> \notin exposed' => rows[u].password <= rows'[u].password
<1> USE DEF Base
<1>0. /\ rows[u] \in Row /\ rows[u].password \in Nat /\ rows[u].password <= stamp
      /\ stamp \in Nat /\ stamp' \in Nat /\ stamp <= stamp'
  <2>1. rows[u] \in Row /\ rows[u].password <= stamp /\ stamp \in Nat
    BY DEF TypeOK, Aged
  <2>2. stamp' \in Nat /\ stamp <= stamp'
    BY NextType, RowsStay DEF TypeOK
  <2> QED BY <2>1, <2>2 DEF Row, Stamp
<1>1. ASSUME NEW v \in User, NEW r \in Row, Created(v, r)
      PROVE  rows'[u] = rows[u] /\ exposed' = exposed
  BY <1>1 DEF Created, TypeOK
<1>2. ASSUME NEW v \in User, NEW f \in {"password", "login"}, Stamped(v, f)
      PROVE  /\ rows'[u] \in Row /\ exposed \subseteq exposed'
             /\ rows'[u].password <= stamp' /\ rows[u].password <= rows'[u].password
  <2>1. exposed \subseteq exposed' /\ stamp' = stamp + 1
    BY <1>2, KeptColumns DEF Expose, Stamped
  <2>2. rows'[u] # None
    BY RowsStay
  <2>3. rows'[u] \in Row
    BY <2>2, NextType DEF TypeOK
  <2>4. rows'[u].password = rows[u].password \/ rows'[u].password = stamp + 1
    BY <1>2, KeptColumns DEF Field
  <2> QED BY <1>0, <2>1, <2>3, <2>4
<1>3. ASSUME NEW v \in User, NEW r \in Row,
             NEW sets \in SUBSET {"email", "active", "suspended"}, Saved(v, r, sets)
      PROVE  /\ rows'[u] \in Row /\ exposed \subseteq exposed' /\ rows'[u].password <= stamp'
             /\ <<u, "password">> \notin exposed' => rows[u].password <= rows'[u].password
  <2>1. rows' = [rows EXCEPT ![v] = r] /\ exposed \subseteq exposed'
    BY <1>3, SavedRows
  <2>2. r.password <= stamp /\ r.password \in Nat /\ "password" \in Field \ sets
    BY <1>3 DEF Saved, Row, Stamp, Field
  <2>3. <<v, "password">> \notin exposed' => r.password = rows[v].password
    BY <1>3, <2>1, <2>2, SavedRows
  <2>4. rows'[u] = IF u = v THEN r ELSE rows[u]
    BY <2>1 DEF TypeOK
  <2>5. CASE u = v
    BY <1>0, <2>1, <2>2, <2>3, <2>4, <2>5
  <2>6. CASE u # v
    BY <1>0, <2>1, <2>4, <2>6
  <2> QED BY <2>5, <2>6
<1> QED BY <1>0, <1>1, <1>2, <1>3, RowsStep

LEMMA AgedStep == ASSUME Base, [Next]_vars PROVE Aged'
<1> USE DEF Base
<1>0. TypeOK' /\ stamp \in Nat /\ stamp' \in Nat /\ stamp <= stamp'
  BY NextType, RowsStay DEF TypeOK
<1>1. ASSUME NEW u \in User, rows'[u] # None PROVE rows'[u].password <= stamp'
  <2>1. CASE rows[u] # None
    BY <2>1, PasswordsGrow
  <2>2. CASE rows[u] = None
    <3>1. ASSUME NEW v \in User, NEW r \in Row, Created(v, r) PROVE rows'[u].password <= stamp'
      <4>1. rows'[u] = r /\ r.password <= stamp /\ r.password \in Nat
        BY <1>1, <2>2, <3>1 DEF Created, TypeOK, Row, Stamp
      <4> QED BY <1>0, <4>1
    <3>2. ASSUME NEW v \in User, NEW f \in {"password", "login"}, Stamped(v, f)
          PROVE  rows'[u] = None
      BY <2>2, <3>2, StampedRows DEF TypeOK, Stamped
    <3>3. ASSUME NEW v \in User, NEW r \in Row,
                 NEW sets \in SUBSET {"email", "active", "suspended"}, Saved(v, r, sets)
          PROVE  rows'[u] = None
      BY <2>2, <3>3, SavedRows DEF TypeOK, Saved
    <3> QED BY <1>1, <2>2, <3>1, <3>2, <3>3, RowsStep
  <2> QED BY <2>1, <2>2
<1>2. ASSUME NEW i \in DOMAIN links
      PROVE  rows'[links'[i].user] # None /\ links'[i].password <= stamp'
  <2>1. links[i] \in Link
    BY DEF TypeOK
  <2>2. links[i].user \in User /\ rows[links[i].user] # None
        /\ links[i].password \in Nat /\ links[i].password <= stamp
    BY <2>1 DEF Aged, Link, Stamp
  <2>3. links'[i].user = links[i].user /\ links'[i].password = links[i].password
    BY LinksStay
  <2> QED BY <1>0, <2>2, <2>3, RowsStay
<1>3. ASSUME NEW u \in User, ResetRequest(u), NEW i \in DOMAIN links', i \notin DOMAIN links
      PROVE  rows'[links'[i].user] # None /\ links'[i].password <= stamp'
  <2>1. links'[i].user = u /\ links'[i].password = rows[u].password
    BY <1>3 DEF ResetRequest, TypeOK
  <2>2. rows[u] # None /\ rows' = rows /\ stamp' = stamp
    BY <1>3 DEF ResetRequest
  <2> QED BY <2>1, <2>2 DEF Aged
<1>4. ASSUME NEW t \in Web, ResetSave(t) PROVE DOMAIN links' = DOMAIN links
  BY <1>4 DEF ResetSave
<1>5. \A i \in DOMAIN links' : rows'[links'[i].user] # None /\ links'[i].password <= stamp'
  BY <1>2, <1>3, <1>4, LinksStep
<1> QED BY <1>1, <1>5 DEF Aged

\* A request begins with what it loads, ends or goes on as it was.
LEMMA WebMoves ==
    ASSUME Base, [Next]_vars, NEW t \in Web
    PROVE  web'[t] = web[t] \/ web'[t] = Idle \/ Begin(t)
<1> USE DEF Base
<1>1. ASSUME NEW s \in Web, WebStep(s) PROVE web'[t] = web[t] \/ web'[t] = Idle
  <2>1. Done(s)
    BY <1>1 DEF WebStep, RegisterCreate, LoginMint, RefreshMint, PatchSave, ChangeSave,
                ResetSave
  <2> QED BY <2>1 DEF Done, TypeOK
<1>2. ASSUME NEW s \in Web, Begin(s), s # t PROVE web'[t] = web[t]
  BY <1>2, Begun DEF TypeOK
<1>3. ASSUME (\E u \in User : ResetRequest(u) \/ PaidChanges(u))
             \/ (\E u \in User, k \in DOMAIN tokens : Logout(u, k))
             \/ (\E c \in access : AccessExpires(c)) \/ UNCHANGED vars
      PROVE  UNCHANGED web
  BY <1>3 DEF ResetRequest, PaidChanges, Logout, AccessExpires, vars
<1> QED BY <1>1, <1>2, <1>3 DEF Next

\* What a PATCH and a login hold when they begin.
LEMMA Loads ==
    ASSUME Base, NEW t \in Web, Begin(t)
    PROVE  /\ web'[t].pc = "login" => /\ rows[web'[t].user] = web'[t].row
                                      /\ web'[t].user \in User
           /\ web'[t].pc = "save" =>
                /\ web'[t].user \in User /\ rows[web'[t].user] # None
                /\ \A f \in Field \ web'[t].sets : web'[t].row[f] = rows[web'[t].user][f]
           /\ UNCHANGED <<rows, exposed, overtaken>>
<1> USE DEF Base
<1>0. \A pc, u, q, sets, i :
        /\ Hold(pc, u, q, sets, i).pc = pc /\ Hold(pc, u, q, sets, i).user = u
        /\ Hold(pc, u, q, sets, i).row = q /\ Hold(pc, u, q, sets, i).sets = sets
  BY DEF Hold
<1>1. UNCHANGED <<rows, exposed, overtaken>>
  BY DEF Begin, Login, Change, Register, Profile, AdminUserPatch, Refresh, ResetConfirm,
         UseToken, history
<1>t. \A q : Take(t, q) => web'[t] = q
  BY DEF Take, TypeOK
<1>2. ASSUME NEW u \in User, Login(t, u)
      PROVE  web'[t].pc = "login" /\ web'[t].user = u /\ web'[t].row = rows[u]
  BY <1>0, <1>t, <1>2 DEF Login
<1>3. ASSUME NEW u \in User, NEW f \in Column, NEW q,
             Take(t, Hold("save", u, q, {f}, 0)), rows[u] # None,
             \A g \in Field \ {f} : q[g] = rows[u][g]
      PROVE  /\ web'[t].pc = "save" /\ web'[t].user = u /\ rows[u] # None
             /\ \A g \in Field \ web'[t].sets : web'[t].row[g] = rows[u][g]
  BY <1>0, <1>t, <1>3
<1>4. \A u \in User : rows[u] # None => rows[u] \in Row /\ DOMAIN rows[u] = Field
  BY DEF TypeOK, Row, Field, Column
<1>5. ASSUME NEW u \in User, NEW e \in Email, Profile(t, u, e)
      PROVE  /\ web'[t].pc = "save" /\ web'[t].user = u /\ rows[u] # None
             /\ \A g \in Field \ web'[t].sets : web'[t].row[g] = rows[u][g]
  <2>1. rows[u] # None /\ Take(t, Hold("save", u, [rows[u] EXCEPT !.email = e], {"email"}, 0))
    BY <1>5 DEF Profile, SignedIn
  <2>2. \A g \in Field \ {"email"} : [rows[u] EXCEPT !.email = e][g] = rows[u][g]
    BY <1>4, <2>1
  <2>3. "email" \in Column
    BY DEF Column
  <2> QED BY <1>3, <2>1, <2>2, <2>3
<1>6. ASSUME NEW u \in User, NEW f \in Column, AdminUserPatch(t, u, f)
      PROVE  /\ web'[t].pc = "save" /\ web'[t].user = u /\ rows[u] # None
             /\ \A g \in Field \ web'[t].sets : web'[t].row[g] = rows[u][g]
  <2>1. rows[u] # None /\ Take(t, Hold("save", u, [rows[u] EXCEPT ![f] = ~@], {f}, 0))
    BY <1>6 DEF AdminUserPatch
  <2>2. \A g \in Field \ {f} : [rows[u] EXCEPT ![f] = ~@][g] = rows[u][g]
    BY <1>4, <2>1
  <2> DEFINE q == [rows[u] EXCEPT ![f] = ~@]
  <2>3. Take(t, Hold("save", u, q, {f}, 0)) /\ \A g \in Field \ {f} : q[g] = rows[u][g]
    BY <2>1, <2>2
  <2> HIDE DEF q
  <2> QED BY <1>3, <2>1, <2>3
<1>7. ASSUME NEW u \in User, Change(t, u) PROVE web'[t].pc = "change"
  BY <1>0, <1>t, <1>7 DEF Change
<1>8. ASSUME NEW u \in User, NEW e \in Email, Register(t, u, e) PROVE web'[t].pc = "register"
  BY <1>0, <1>t, <1>8 DEF Register
<1>9. ASSUME NEW k \in DOMAIN tokens, Refresh(t, k) PROVE web'[t].pc = "refresh"
  BY <1>0, <1>t, <1>9 DEF Refresh
<1>10. ASSUME NEW i \in DOMAIN links, ResetConfirm(t, i) PROVE web'[t].pc = "reset"
  BY <1>0, <1>t, <1>10 DEF ResetConfirm
<1> QED BY <1>1, <1>2, <1>5, <1>6, <1>7, <1>8, <1>9, <1>10 DEF Begin

\* What a waiting PATCH holds was in the row, or is exposed.
LEMMA StalenessStep == ASSUME Base, [Next]_vars PROVE Staleness'
<1> USE DEF Base
<1>1. ASSUME NEW t \in Web, Begin(t), web'[t] # web[t] PROVE Stale(web[t])'
  BY <1>1, Loads DEF Stale
<1>2. ASSUME NEW t \in Web, web'[t] = web[t], web[t].pc = "save"
      PROVE  Stale(web[t])'
  <2> DEFINE v == web[t].user
  <2>1. v \in User /\ rows[v] # None /\ web[t].sets \in SUBSET Column
    BY <1>2 DEF Holding, Holds, Existing, TypeOK, Request
  <2>2. \A g \in Field \ web[t].sets : web[t].row[g] = rows[v][g] \/ <<v, g>> \in exposed
    BY <1>2 DEF Staleness, Stale
  <2>3. ASSUME UNCHANGED <<rows, meant, exposed>> PROVE Stale(web[t])'
    BY <1>2, <2>2, <2>3 DEF Stale
  <2>4. ASSUME NEW u \in User, NEW r \in Row, Created(u, r) PROVE Stale(web[t])'
    <3>1. rows'[v] = rows[v] /\ exposed' = exposed
      BY <2>1, <2>4 DEF Created, TypeOK
    <3> QED BY <1>2, <2>2, <3>1 DEF Stale
  <2>5. ASSUME NEW u \in User, NEW f \in {"password", "login"}, Stamped(u, f)
        PROVE  Stale(web[t])'
    <3>1. exposed \subseteq exposed' /\ Expose(u, {f})
      BY <2>5, KeptColumns DEF Expose
    <3>2. f \notin web[t].sets
      BY <2>1 DEF Column
    <3>3. v = u => <<v, f>> \in exposed'
      BY <1>2, <2>1, <3>1, <3>2 DEF Expose, At
    <3>4. \A g \in Field : rows'[v][g] = rows[v][g] \/ (v = u /\ g = f)
      BY <2>1, <2>5, KeptColumns
    <3> QED BY <1>2, <2>2, <3>1, <3>3, <3>4 DEF Stale
  <2>6. ASSUME NEW u \in User, NEW r \in Row,
               NEW sets \in SUBSET {"email", "active", "suspended"}, Saved(u, r, sets)
        PROVE  Stale(web[t])'
    <3>1. exposed \subseteq exposed' /\ Expose(u, sets)
          /\ \A g \in Field \ sets : r[g] = rows[u][g] \/ <<u, g>> \in exposed
      BY <2>6, SavedRows
    <3>2. rows'[v] = IF v = u THEN r ELSE rows[v]
      BY <2>1, <2>6, SavedRows DEF TypeOK
    <3>3. \A g \in sets \ web[t].sets : v = u => <<v, g>> \in exposed'
      BY <1>2, <2>1, <3>1 DEF Expose, At
    <3> QED BY <1>2, <2>2, <3>1, <3>2, <3>3 DEF Stale
  <2> QED BY <2>3, <2>4, <2>5, <2>6, RowsStep
<1>3. Stale(Idle)'
  BY DEF Stale, Idle, Hold
<1>4. \A t \in Web : Stale(web[t])'
  <2>1. ASSUME NEW t \in Web, web'[t] = web[t], web[t].pc # "save" PROVE Stale(web[t])'
    BY <2>1 DEF Stale
  <2>2. ASSUME NEW t \in Web, web'[t] = Idle PROVE Stale(web[t])'
    BY <2>2 DEF Stale, Idle, Hold
  <2> QED BY <1>1, <1>2, <2>1, <2>2, WebMoves
<1> QED BY <1>4 DEF Staleness

\* A suspension saved while a login is under way is noted for it.
LEMMA OvertakenStep == ASSUME Base, [Next]_vars PROVE Overtaken'
<1> USE DEF Base
<1> SUFFICES ASSUME NEW t \in Web, web'[t].pc = "login", rows'[web'[t].user].suspended
             PROVE  web'[t].row.suspended \/ t \in overtaken'
  BY DEF Overtaken
<1>1. CASE Begin(t) /\ web'[t] # web[t]
  BY <1>1, Loads
<1>2. CASE web'[t] = web[t]
  <2> DEFINE v == web[t].user
  <2>1. v \in User /\ rows[v] # None
    BY <1>2 DEF Holding, Holds, Existing
  <2>2. rows[v].suspended => web[t].row.suspended \/ t \in overtaken
    BY <1>2 DEF Overtaken
  <2>3. t \in overtaken => t \in overtaken'
    <3>1. ASSUME NEW s \in Web, LoginMint(s) PROVE s # t
      BY <1>2, <3>1 DEF LoginMint, Done, Idle, Hold, TypeOK
    <3>2. ASSUME NEW s \in Web, WebStep(s), ~LoginMint(s) PROVE overtaken \subseteq overtaken'
      BY <3>2 DEF WebStep, RegisterCreate, RefreshMint, PatchSave, Overtake, ChangeSave,
                  ResetSave, history
    <3>3. ASSUME NEW s \in Web, Begin(s) PROVE overtaken' = overtaken
      BY <3>3, Loads
    <3>4. ASSUME (\E u \in User : ResetRequest(u) \/ PaidChanges(u))
                 \/ (\E u \in User, k \in DOMAIN tokens : Logout(u, k))
                 \/ (\E c \in access : AccessExpires(c)) \/ UNCHANGED vars
          PROVE  UNCHANGED overtaken
      BY <3>4 DEF ResetRequest, PaidChanges, Logout, UseToken, AccessExpires, vars, history
    <3>5. ASSUME NEW s \in Web, LoginMint(s) PROVE overtaken' = overtaken \ {s}
      BY <3>5 DEF LoginMint
    <3> QED BY <3>1, <3>2, <3>3, <3>4, <3>5 DEF Next
  <2>4. ASSUME UNCHANGED rows \/ \E u \in User, r \in Row : Created(u, r)
        PROVE  rows'[v] = rows[v]
    BY <2>1, <2>4 DEF Created, TypeOK
  <2>5. ASSUME NEW u \in User, NEW f \in {"password", "login"}, Stamped(u, f)
        PROVE  rows'[v].suspended = rows[v].suspended
    BY <2>1, <2>5, KeptColumns DEF Field, Column
  <2>6. ASSUME NEW u \in User, NEW r \in Row, NEW sets \in SUBSET {"email", "active", "suspended"},
               Saved(u, r, sets)
        PROVE  rows[v].suspended \/ t \in overtaken'
    <3>1. CASE v # u
      BY <1>2, <2>1, <2>6, <3>1, SavedRows DEF TypeOK
    <3>2. CASE v = u
      BY <1>2, <2>1, <2>6, <3>2 DEF Saved, Overtake, At
    <3> QED BY <3>1, <3>2
  <2> QED BY <1>2, <2>2, <2>3, <2>4, <2>5, <2>6, RowsStep
<1>3. CASE web'[t] = Idle
  BY <1>3 DEF Idle, Hold
<1> QED BY <1>1, <1>2, <1>3, WebMoves

LEMMA BaseStep == ASSUME Base, [Next]_vars PROVE Base'
BY NextType, HoldingStep, KnownStep, AgedStep, StalenessStep, OvertakenStep DEF Base

-----------------------------------------------------------------------------
(* Sessions *)

\* What the three ways to touch a token do.
LEMMA OpenedTokens ==
    ASSUME Base, NEW t \in Web, NEW barred \in BOOLEAN, Opens(t, barred)
    PROVE  \E c \in Claims, ok \in BOOLEAN :
             /\ c.session = Len(opened) + 1
             /\ opened' = Append(opened, ok) /\ (c.paid /\ ~c.barred => ok)
             /\ access' = access \cup {c}
             /\ DOMAIN tokens' = DOMAIN tokens \cup {Len(tokens) + 1}
             /\ \A k \in DOMAIN tokens : tokens'[k] = tokens[k]
             /\ tokens'[Len(tokens) + 1] = [claims |-> c, black |-> FALSE]
<1> DEFINE u == web[t].user
           c == [user |-> u, paid |-> paid[u], barred |-> barred,
                 session |-> Len(opened) + 1]
           ok == paid[c.user] /\ (~rows'[c.user].suspended \/ t \in overtaken)
<1>0. u \in User /\ (rows'[u].suspended => barred \/ t \in overtaken)
  BY DEF Opens
<1>1. c \in Claims /\ tokens \in Seq(Refreshable) /\ ok \in BOOLEAN
  BY <1>0 DEF Base, TypeOK, Claims
<1>2. /\ c.session = Len(opened) + 1 /\ c.paid = paid[u] /\ c.barred = barred
      /\ tokens' = Append(tokens, [claims |-> c, black |-> FALSE])
      /\ access' = access \cup {c}
      /\ opened' = Append(opened, ok)
  BY DEF Opens, OpenSession, Begins
<1>3. c.paid /\ ~c.barred => ok
  BY <1>0
<1> HIDE DEF c, ok, u
<1>4. /\ DOMAIN tokens' = DOMAIN tokens \cup {Len(tokens) + 1}
      /\ \A k \in DOMAIN tokens : tokens'[k] = tokens[k]
      /\ tokens'[Len(tokens) + 1] = [claims |-> c, black |-> FALSE]
  BY <1>1, <1>2
<1> QED BY <1>1, <1>2, <1>3, <1>4

LEMMA MintedTokens ==
    ASSUME Base, NEW t \in Web, RefreshMint(t)
    PROVE  \E k \in DOMAIN tokens :
             /\ web[t].pc = "refresh" /\ web[t].item = k /\ Done(t)
             /\ access' = access \cup {tokens[k].claims}
             /\ DOMAIN tokens' = DOMAIN tokens \cup {Len(tokens) + 1}
             /\ \A j \in DOMAIN tokens :
                    /\ tokens'[j].claims = tokens[j].claims
                    /\ tokens'[j].black = (tokens[j].black \/ j = k)
             /\ tokens'[Len(tokens) + 1] = [claims |-> tokens[k].claims, black |-> FALSE]
             /\ UNCHANGED <<forked, opened>>
<1>1. PICK k \in DOMAIN tokens : web[t].item = k /\ web[t].pc = "refresh"
  BY DEF Base, RefreshMint, At, Holding, Holds
<1> DEFINE old == [tokens EXCEPT ![k].black = TRUE]
           new == [claims |-> tokens[k].claims, black |-> FALSE]
<1>2. tokens' = Append(old, new) /\ access' = access \cup {tokens[k].claims}
      /\ UNCHANGED <<forked, opened>> /\ Done(t)
  BY <1>1 DEF RefreshMint, history
<1>3. tokens \in Seq(Refreshable) /\ \A j \in DOMAIN tokens : tokens[j] \in Refreshable
  BY DEF Base, TypeOK
<1>4. DOMAIN old = DOMAIN tokens /\ Len(old) = Len(tokens)
  BY <1>3
<1>5. \A j \in DOMAIN tokens :
        old[j].claims = tokens[j].claims /\ old[j].black = (tokens[j].black \/ j = k)
  <2>1. \A r \in Refreshable : [r EXCEPT !.black = TRUE].claims = r.claims
                               /\ [r EXCEPT !.black = TRUE].black = TRUE
    BY DEF Refreshable
  <2>2. \A j \in DOMAIN tokens :
            old[j] = IF j = k THEN [tokens[j] EXCEPT !.black = TRUE] ELSE tokens[j]
    OBVIOUS
  <2>3. \A j \in DOMAIN tokens : tokens[j].black \in BOOLEAN
    BY <1>3 DEF Refreshable
  <2> QED BY <1>3, <2>1, <2>2, <2>3
<1>6. old \in Seq(Refreshable) /\ new \in Refreshable
  <2>1. tokens[k] \in Refreshable
    BY <1>3
  <2>2. [tokens[k] EXCEPT !.black = TRUE] \in Refreshable /\ new \in Refreshable
    BY <2>1 DEF Refreshable
  <2>3. old = [tokens EXCEPT ![k] = [tokens[k] EXCEPT !.black = TRUE]]
    OBVIOUS
  <2> HIDE DEF new, old
  <2> QED BY <1>3, <2>2, <2>3
<1> HIDE DEF old, new
<1>7. /\ DOMAIN tokens' = DOMAIN old \cup {Len(old) + 1}
      /\ \A j \in DOMAIN old : tokens'[j] = old[j]
      /\ tokens'[Len(old) + 1] = new
  BY <1>2, <1>6
<1>8. tokens'[Len(tokens) + 1] = [claims |-> tokens[k].claims, black |-> FALSE]
  BY <1>4, <1>7 DEF new
<1>9. DOMAIN tokens' = DOMAIN tokens \cup {Len(tokens) + 1}
      /\ \A j \in DOMAIN tokens :
            /\ tokens'[j].claims = tokens[j].claims
            /\ tokens'[j].black = (tokens[j].black \/ j = k)
  BY <1>4, <1>5, <1>7
<1> QED BY <1>1, <1>2, <1>8, <1>9

LEMMA LoggedOutTokens ==
    ASSUME Base, NEW u \in User, NEW k \in DOMAIN tokens, Logout(u, k)
    PROVE  /\ DOMAIN tokens' = DOMAIN tokens
           /\ \A j \in DOMAIN tokens :
                /\ tokens'[j].claims = tokens[j].claims
                /\ tokens'[j].black = (tokens[j].black \/ j = k)
           /\ UNCHANGED <<access, opened, web>> /\ UseToken(k)
<1>1. \A j \in DOMAIN tokens : tokens[j] \in Refreshable
  BY DEF Base, TypeOK
<1> QED BY <1>1 DEF Logout, UseToken, Refreshable

LEMMA ClaimsStep == ASSUME Base, ClaimsTrue, [Next]_vars PROVE ClaimsTrue'
<1> USE DEF Base
<1>1. ASSUME UNCHANGED <<tokens, opened>>, access' \subseteq access PROVE ClaimsTrue'
  BY <1>1 DEF ClaimsTrue, Truthful
<1>2. ASSUME NEW t \in Web, NEW barred \in BOOLEAN, Opens(t, barred) PROVE ClaimsTrue'
  <2>1. PICK c \in Claims, ok \in BOOLEAN :
             /\ c.session = Len(opened) + 1
             /\ opened' = Append(opened, ok) /\ (c.paid /\ ~c.barred => ok)
             /\ access' = access \cup {c}
             /\ DOMAIN tokens' = DOMAIN tokens \cup {Len(tokens) + 1}
             /\ \A k \in DOMAIN tokens : tokens'[k] = tokens[k]
             /\ tokens'[Len(tokens) + 1] = [claims |-> c, black |-> FALSE]
    BY <1>2, OpenedTokens
  <2>2. c.session \in DOMAIN opened' /\ (c.paid /\ ~c.barred => opened'[c.session])
    BY <2>1 DEF TypeOK, Claims
  <2>3. \A s \in DOMAIN opened : s \in DOMAIN opened' /\ opened'[s] = opened[s]
    BY <2>1 DEF TypeOK, Claims
  <2>4. tokens'[Len(tokens) + 1].claims = c
    BY <2>1
  <2>5. \A d \in access' : d.session \in DOMAIN opened' /\ (d.paid /\ ~d.barred => opened'[d.session])
    BY <2>1, <2>2, <2>3 DEF ClaimsTrue, Truthful
  <2>6. \A k \in DOMAIN tokens' : tokens'[k].claims.session \in DOMAIN opened'
            /\ (tokens'[k].claims.paid /\ ~tokens'[k].claims.barred =>
                    opened'[tokens'[k].claims.session])
    BY <2>1, <2>2, <2>3, <2>4 DEF ClaimsTrue, Truthful
  <2>7. (\A d \in access : Truthful(d))'
    BY <2>5 DEF Truthful
  <2>8. (\A k \in DOMAIN tokens : Truthful(tokens[k].claims))'
    BY <2>6 DEF Truthful
  <2> QED BY <2>7, <2>8 DEF ClaimsTrue
<1>3. ASSUME NEW t \in Web, RefreshMint(t) PROVE ClaimsTrue'
  <2>1. PICK k \in DOMAIN tokens :
             /\ access' = access \cup {tokens[k].claims}
             /\ DOMAIN tokens' = DOMAIN tokens \cup {Len(tokens) + 1}
             /\ \A j \in DOMAIN tokens : tokens'[j].claims = tokens[j].claims
             /\ tokens'[Len(tokens) + 1] = [claims |-> tokens[k].claims, black |-> FALSE]
             /\ opened' = opened
    BY <1>3, MintedTokens
  <2>2. tokens'[Len(tokens) + 1].claims = tokens[k].claims
    BY <2>1
  <2> QED BY <2>1, <2>2 DEF ClaimsTrue, Truthful
<1>4. ASSUME NEW u \in User, NEW k \in DOMAIN tokens, Logout(u, k) PROVE ClaimsTrue'
  BY <1>4, LoggedOutTokens DEF ClaimsTrue, Truthful
<1> QED BY <1>1, <1>2, <1>3, <1>4, TokensStep

\* How requests to refresh begin, and what happens to the note of double use.
LEMMA ForkedStep ==
    ASSUME Base, [Next]_vars
    PROVE  \/ UNCHANGED forked
           \/ \E t \in Web, k \in DOMAIN tokens : Refresh(t, k)
           \/ \E u \in User, k \in DOMAIN tokens : Logout(u, k)
<1>1. ASSUME NEW t \in Web, Begin(t)
      PROVE  UNCHANGED forked \/ \E k \in DOMAIN tokens : Refresh(t, k)
  BY <1>1 DEF Begin, Login, Change, Register, Profile, AdminUserPatch, ResetConfirm, history
<1>2. ASSUME NEW t \in Web, WebStep(t) PROVE UNCHANGED forked
  BY <1>2 DEF WebStep, RegisterCreate, LoginMint, RefreshMint, PatchSave, ChangeSave,
              ResetSave, history
<1>3. ASSUME (\E u \in User : ResetRequest(u) \/ PaidChanges(u))
             \/ (\E c \in access : AccessExpires(c)) \/ UNCHANGED vars
      PROVE  UNCHANGED forked
  BY <1>3 DEF ResetRequest, PaidChanges, AccessExpires, vars, history
<1> QED BY <1>1, <1>2, <1>3 DEF Next

\* Only Refresh makes a thread one that refreshes.
LEMMA RefreshBegins ==
    ASSUME Base, [Next]_vars, NEW t \in Web, web'[t].pc = "refresh"
    PROVE  web'[t] = web[t] \/ \E k \in DOMAIN tokens : Refresh(t, k)
<1> USE DEF Base
<1>1. ASSUME NEW s \in Web, Done(s) PROVE web'[t] = web[t]
  BY <1>1 DEF Done, Idle, Hold, TypeOK
<1>2. ASSUME NEW s \in Web, WebStep(s) PROVE Done(s)
  BY <1>2 DEF WebStep, RegisterCreate, LoginMint, RefreshMint, PatchSave, ChangeSave, ResetSave
<1>3. ASSUME (\E u \in User : ResetRequest(u) \/ PaidChanges(u))
             \/ (\E u \in User, k \in DOMAIN tokens : Logout(u, k))
             \/ (\E c \in access : AccessExpires(c)) \/ UNCHANGED vars
      PROVE  UNCHANGED web
  BY <1>3 DEF ResetRequest, PaidChanges, Logout, AccessExpires, vars
<1>4. ASSUME NEW s \in Web, NEW r, r.pc # "refresh", Take(s, r) PROVE web'[t] = web[t]
  BY <1>4 DEF Take, TypeOK
<1>5. \A pc, u, r, sets, item : Hold(pc, u, r, sets, item).pc = pc
  BY DEF Hold
<1>6. ASSUME NEW s \in Web, Begin(s), ~ \E k \in DOMAIN tokens : Refresh(s, k)
      PROVE  web'[t] = web[t]
  <2>1. \E r : r.pc # "refresh" /\ Take(s, r)
    <3>1. ASSUME NEW u \in User, Login(s, u) \/ Change(s, u)
          PROVE  \E r : r.pc # "refresh" /\ Take(s, r)
      BY <1>5, <3>1 DEF Login, Change
    <3>2. ASSUME NEW u \in User, NEW e \in Email, Register(s, u, e)
          PROVE  \E r : r.pc # "refresh" /\ Take(s, r)
      BY <1>5, <3>2 DEF Register
    <3>3. ASSUME NEW u \in User, NEW e \in Email, Profile(s, u, e)
          PROVE  \E r : r.pc # "refresh" /\ Take(s, r)
      BY <1>5, <3>3 DEF Profile
    <3>4. ASSUME NEW u \in User, NEW f \in Column, AdminUserPatch(s, u, f)
          PROVE  \E r : r.pc # "refresh" /\ Take(s, r)
      BY <1>5, <3>4 DEF AdminUserPatch
    <3>5. ASSUME NEW i \in DOMAIN links, ResetConfirm(s, i)
          PROVE  \E r : r.pc # "refresh" /\ Take(s, r)
      BY <1>5, <3>5 DEF ResetConfirm
    <3> QED BY <1>6, <3>1, <3>2, <3>3, <3>4, <3>5 DEF Begin
  <2> QED BY <1>4, <2>1
<1>7. ASSUME NEW s \in Web, NEW k \in DOMAIN tokens, Refresh(s, k), s # t
      PROVE  web'[t] = web[t]
  BY <1>7 DEF Refresh, Take, TypeOK
<1> QED BY <1>1, <1>2, <1>3, <1>6, <1>7 DEF Next

LEMMA NotedStep == ASSUME Base, Noted, [Next]_vars PROVE Noted'
<1> USE DEF Base
<1>0. \A t \in Web : web[t].pc = "refresh" => web[t].item \in DOMAIN tokens
  BY DEF Holding, Holds
<1>1. ASSUME NEW t \in Web, NEW k \in DOMAIN tokens, Refresh(t, k) PROVE Noted'
  <2>1. /\ tokens' = tokens /\ ~tokens[k].black
        /\ web' = [web EXCEPT ![t] = Hold("refresh", None, None, {}, k)]
        /\ forked' = IF \E s \in Web : web[s].pc = "refresh" /\ web[s].item = k
                     THEN forked \cup {tokens[k].claims.session} ELSE forked
        /\ web[t].pc = "idle"
    BY <1>1 DEF Refresh, Take, UseToken, At
  <2>2. web'[t].item = k /\ \A s \in Web : s # t => web'[s] = web[s]
    BY <2>1 DEF Hold, TypeOK
  <2>3. forked \subseteq forked'
    BY <2>1
  <2>4. \A s \in Web : web'[s].pc = "refresh" /\ tokens'[web'[s].item].black =>
            tokens'[web'[s].item].claims.session \in forked'
    BY <2>1, <2>2, <2>3 DEF Noted
  <2>5. \A s, r \in Web : s # r /\ web'[s].pc = "refresh" /\ web'[r].pc = "refresh"
                          /\ web'[s].item = web'[r].item =>
            tokens'[web'[s].item].claims.session \in forked'
    BY <2>1, <2>2, <2>3 DEF Noted
  <2> QED BY <2>4, <2>5 DEF Noted
<1>2. ASSUME NEW u \in User, NEW k \in DOMAIN tokens, Logout(u, k) PROVE Noted'
  <2>1. /\ \A j \in DOMAIN tokens :
                /\ tokens'[j].claims = tokens[j].claims
                /\ tokens'[j].black = (tokens[j].black \/ j = k)
        /\ web' = web
        /\ forked' = IF \E s \in Web : web[s].pc = "refresh" /\ web[s].item = k
                     THEN forked \cup {tokens[k].claims.session} ELSE forked
    BY <1>2, LoggedOutTokens DEF UseToken, At
  <2>2. forked \subseteq forked'
    BY <2>1
  <2>3. \A s \in Web : web'[s].pc = "refresh" /\ tokens'[web'[s].item].black =>
            tokens'[web'[s].item].claims.session \in forked'
    BY <1>0, <2>1, <2>2 DEF Noted
  <2>4. \A s, r \in Web : s # r /\ web'[s].pc = "refresh" /\ web'[r].pc = "refresh"
                          /\ web'[s].item = web'[r].item =>
            tokens'[web'[s].item].claims.session \in forked'
    BY <1>0, <2>1, <2>2 DEF Noted
  <2> QED BY <2>3, <2>4 DEF Noted
<1>3. ASSUME NEW t \in Web, RefreshMint(t) PROVE Noted'
  <2>1. PICK k \in DOMAIN tokens :
             /\ web[t].pc = "refresh" /\ web[t].item = k /\ Done(t)
             /\ \A j \in DOMAIN tokens :
                    /\ tokens'[j].claims = tokens[j].claims
                    /\ tokens'[j].black = (tokens[j].black \/ j = k)
             /\ UNCHANGED <<forked, opened>>
    BY <1>3, MintedTokens
  <2>2. \A s \in Web : web'[s].pc = "refresh" => s # t /\ web'[s] = web[s]
    BY <2>1 DEF Done, Idle, Hold, TypeOK
  <2>3. \A s \in Web : s # t /\ web[s].pc = "refresh" /\ web[s].item = k =>
            tokens[k].claims.session \in forked
    BY <2>1 DEF Noted
  <2>4. ASSUME NEW s \in Web, web'[s].pc = "refresh"
        PROVE  /\ s # t /\ web[s].pc = "refresh" /\ web'[s].item = web[s].item
               /\ web[s].item \in DOMAIN tokens
               /\ tokens'[web'[s].item].claims = tokens[web[s].item].claims
               /\ tokens'[web'[s].item].black = (tokens[web[s].item].black \/ web[s].item = k)
    <3>1. s # t /\ web'[s] = web[s] /\ web[s].pc = "refresh"
      BY <2>2, <2>4
    <3>2. web[s].item \in DOMAIN tokens
      BY <1>0, <3>1
    <3> QED BY <2>1, <3>1, <3>2
  <2>5. ASSUME NEW s \in Web, web'[s].pc = "refresh", tokens'[web'[s].item].black
        PROVE  tokens'[web'[s].item].claims.session \in forked'
    <3>1. CASE tokens[web[s].item].black
      BY <2>1, <2>4, <2>5, <3>1 DEF Noted
    <3>2. CASE web[s].item = k
      BY <2>1, <2>3, <2>4, <2>5, <3>2
    <3> QED BY <2>4, <2>5, <3>1, <3>2
  <2>6. ASSUME NEW s \in Web, NEW r \in Web, s # r,
               web'[s].pc = "refresh", web'[r].pc = "refresh", web'[s].item = web'[r].item
        PROVE  tokens'[web'[s].item].claims.session \in forked'
    <3>1. web[s].item = web[r].item /\ web[s].pc = "refresh" /\ web[r].pc = "refresh"
      BY <2>4, <2>6
    <3>2. tokens[web[s].item].claims.session \in forked
      BY <2>6, <3>1 DEF Noted
    <3> QED BY <2>1, <2>4, <2>6, <3>2
  <2> QED BY <2>5, <2>6 DEF Noted
<1>4. ASSUME UNCHANGED forked, ~ \E t \in Web, k \in DOMAIN tokens : Refresh(t, k),
             \A j \in DOMAIN tokens : tokens'[j] = tokens[j]
      PROVE  Noted'
  <2>1. \A t \in Web : web'[t].pc = "refresh" => web'[t] = web[t]
    BY <1>4, RefreshBegins
  <2> QED BY <1>0, <1>4, <2>1 DEF Noted
<1>5. ASSUME NEW t \in Web, NEW barred \in BOOLEAN, Opens(t, barred)
      PROVE  \A j \in DOMAIN tokens : tokens'[j] = tokens[j]
  BY <1>5, OpenedTokens
<1> QED BY <1>1, <1>2, <1>3, <1>4, <1>5, TokensStep, ForkedStep

LEMMA OneTokenStep ==
    ASSUME Base, ClaimsTrue, Noted, OneTokenPerSession, [Next]_vars
    PROVE  OneTokenPerSession'
<1> USE DEF Base
<1>0. forked \subseteq forked'
  BY ForkedStep DEF Refresh, Logout, UseToken
<1>n. Len(tokens) + 1 \notin DOMAIN tokens
  BY DEF TypeOK
<1>1. ASSUME UNCHANGED tokens PROVE OneTokenPerSession'
  BY <1>0, <1>1 DEF OneTokenPerSession
<1>2. ASSUME NEW t \in Web, NEW barred \in BOOLEAN, Opens(t, barred)
      PROVE  OneTokenPerSession'
  <2>1. PICK c \in Claims :
             /\ c.session = Len(opened) + 1
             /\ DOMAIN tokens' = DOMAIN tokens \cup {Len(tokens) + 1}
             /\ \A k \in DOMAIN tokens : tokens'[k] = tokens[k]
             /\ tokens'[Len(tokens) + 1] = [claims |-> c, black |-> FALSE]
    BY <1>2, OpenedTokens
  <2>2. \A k \in DOMAIN tokens : tokens[k].claims.session # c.session
    BY <2>1 DEF ClaimsTrue, Truthful, TypeOK
  <2>3. tokens'[Len(tokens) + 1].claims = c
    BY <2>1
  <2> QED BY <1>0, <2>1, <2>2, <2>3 DEF OneTokenPerSession
<1>3. ASSUME NEW t \in Web, RefreshMint(t) PROVE OneTokenPerSession'
  <2>1. PICK k \in DOMAIN tokens :
             /\ web[t].pc = "refresh" /\ web[t].item = k
             /\ DOMAIN tokens' = DOMAIN tokens \cup {Len(tokens) + 1}
             /\ \A j \in DOMAIN tokens :
                    /\ tokens'[j].claims = tokens[j].claims
                    /\ tokens'[j].black = (tokens[j].black \/ j = k)
             /\ tokens'[Len(tokens) + 1] = [claims |-> tokens[k].claims, black |-> FALSE]
             /\ UNCHANGED <<forked, opened>>
    BY <1>3, MintedTokens
  <2>2. tokens[k].black => tokens[k].claims.session \in forked'
    BY <2>1 DEF Noted
  <2>3. tokens'[Len(tokens) + 1].claims = tokens[k].claims
    BY <2>1
  <2>4. ASSUME NEW j \in DOMAIN tokens, ~tokens'[j].black,
               tokens[j].claims.session = tokens[k].claims.session
        PROVE  tokens[k].claims.session \in forked'
    BY <2>1, <2>2, <2>4 DEF OneTokenPerSession
  <2>5. ASSUME NEW i \in DOMAIN tokens, NEW j \in DOMAIN tokens,
               ~tokens'[i].black, ~tokens'[j].black,
               tokens'[i].claims.session = tokens'[j].claims.session,
               tokens'[i].claims.session \notin forked'
        PROVE  i = j
    BY <2>1, <2>5 DEF OneTokenPerSession
  <2> QED BY <2>1, <2>3, <2>4, <2>5 DEF OneTokenPerSession
<1>4. ASSUME NEW u \in User, NEW k \in DOMAIN tokens, Logout(u, k) PROVE OneTokenPerSession'
  BY <1>0, <1>4, LoggedOutTokens DEF OneTokenPerSession
<1> QED BY <1>1, <1>2, <1>3, <1>4, TokensStep

-----------------------------------------------------------------------------
(* Reset links *)

LEMMA SpentStep == ASSUME Base, Spent, [Next]_vars PROVE Spent'
<1> USE DEF Base
<1>0. TypeOK' /\ \A i \in DOMAIN links : links[i] \in Link /\ links[i].user \in User
                                         /\ rows[links[i].user] # None
  <2>1. \A i \in DOMAIN links : links[i] \in Link
    BY DEF TypeOK
  <2> QED BY <2>1, NextType DEF Aged, Link
<1>1. ASSUME NEW i \in DOMAIN links, links[i].uses >= 1, <<links[i].user, "password">> \notin exposed'
      PROVE  links'[i].password < rows'[links'[i].user].password
  <2>1. links[i].user \in User /\ rows[links[i].user] \in Row
        /\ rows'[links[i].user] \in Row /\ links[i].password \in Nat
        /\ rows[links[i].user].password <= rows'[links[i].user].password
        /\ <<links[i].user, "password">> \notin exposed
    BY <1>0, <1>1, PasswordsGrow DEF Link, Stamp, TypeOK
  <2>2. links[i].password < rows[links[i].user].password
    BY <1>1, <2>1 DEF Spent
  <2>3. rows[links[i].user].password \in Nat /\ rows'[links[i].user].password \in Nat
    BY <2>1 DEF Row, Stamp
  <2> QED BY <2>1, <2>2, <2>3, LinksStay
<1>2. ASSUME UNCHANGED links PROVE Spent'
  BY <1>1, <1>2 DEF Spent
<1>3. ASSUME NEW u \in User, ResetRequest(u) PROVE Spent'
  <2>1. \A i \in DOMAIN links' : i \in DOMAIN links \/ links'[i].uses = 0
    BY <1>3 DEF ResetRequest, TypeOK
  <2>2. \A i \in DOMAIN links : links'[i] = links[i]
    BY <1>3 DEF ResetRequest, TypeOK
  <2> QED BY <1>1, <2>1, <2>2 DEF Spent
<1>4. ASSUME NEW t \in Web, ResetSave(t) PROVE Spent'
  <2> DEFINE k == web[t].item
             u == web[t].user
  <2>1. web[t].pc = "reset" /\ k \in DOMAIN links /\ u = links[k].user /\ u \in User
        /\ rows[u] # None
    BY <1>4 DEF ResetSave, At, Holding, Holds, Existing
  <2>2. links' = [links EXCEPT ![k] = [links[k] EXCEPT !.uses = links[k].uses + 1]]
    BY <1>4 DEF ResetSave
  <2>3. Stamped(u, "password")
    BY <1>4, <2>1 DEF ResetSave, Stamped
  <2>4. rows'[u].password = stamp + 1
    <3>1. rows[u] \in Row /\ stamp + 1 \in Stamp
          /\ rows' = [rows EXCEPT ![u] = [rows[u] EXCEPT !["password"] = stamp + 1]]
      BY <2>1, <2>3, StampedRows
    <3>2. [rows[u] EXCEPT !["password"] = stamp + 1].password = stamp + 1
      BY <3>1, OneColumn
    <3> QED BY <2>1, <3>1, <3>2 DEF TypeOK
  <2>5. links[k].password <= stamp /\ links[k].password \in Nat /\ stamp \in Nat
    BY <1>0, <2>1 DEF Aged, Link, Stamp, TypeOK
  <2>6. links'[k].password = links[k].password /\ links'[k].user = u
    BY <2>1, LinksStay
  <2>7. links'[k].password < rows'[links'[k].user].password
    BY <2>4, <2>5, <2>6
  <2>8. DOMAIN links' = DOMAIN links /\ \A i \in DOMAIN links : i # k => links'[i] = links[i]
    BY <2>2
  <2> HIDE DEF k, u
  <2> QED BY <1>1, <2>7, <2>8 DEF Spent
<1> QED BY <1>2, <1>3, <1>4, LinksStep

LEMMA LinkStep == ASSUME Base, Spent, LinkIsSpent, [Next]_vars PROVE LinkIsSpent'
<1> USE DEF Base
<1>0. \A i \in DOMAIN links : links[i] \in Link /\ links[i].user \in User
                              /\ rows[links[i].user] # None /\ rows[links[i].user] \in Row
  <2>1. \A i \in DOMAIN links : links[i] \in Link
    BY DEF TypeOK
  <2>2. \A i \in DOMAIN links : links[i].user \in User
    BY <2>1 DEF Link
  <2> QED BY <2>1, <2>2 DEF Aged, TypeOK
<1>u. \A i \in DOMAIN links : exposed \subseteq exposed'
  BY <1>0, PasswordsGrow
<1>1. ASSUME UNCHANGED <<links, contested>> PROVE LinkIsSpent'
  BY <1>u, <1>1 DEF LinkIsSpent
<1>2. ASSUME NEW u \in User, ResetRequest(u) PROVE LinkIsSpent'
  <2>1. \A i \in DOMAIN links' : i \in DOMAIN links \/ links'[i].uses = 0
    BY <1>2 DEF ResetRequest, TypeOK
  <2>2. \A i \in DOMAIN links : links'[i] = links[i]
    BY <1>2 DEF ResetRequest, TypeOK
  <2>3. UNCHANGED <<contested, exposed>>
    BY <1>2 DEF ResetRequest, history
  <2> QED BY <2>1, <2>2, <2>3 DEF LinkIsSpent
<1>3. ASSUME NEW t \in Web, ResetSave(t) PROVE LinkIsSpent'
  <2> DEFINE k == web[t].item
  <2>1. k \in DOMAIN links
    BY <1>3 DEF ResetSave, At, Holding, Holds
  <2>2. /\ links' = [links EXCEPT ![k] = [links[k] EXCEPT !.uses = links[k].uses + 1]]
        /\ contested' = IF Good(links[k]) THEN contested ELSE contested \cup {k}
        /\ exposed \subseteq exposed'
    BY <1>3 DEF ResetSave, SetColumn, Expose
  <2> HIDE DEF k
  <2>3. DOMAIN links' = DOMAIN links /\ \A i \in DOMAIN links : i # k => links'[i] = links[i]
    BY <2>2
  <2>4. links'[k].uses = links[k].uses + 1 /\ links'[k].user = links[k].user
        /\ links[k].uses \in Nat /\ links[k].password \in Nat
        /\ rows[links[k].user].password \in Nat
    BY <1>0, <2>1, <2>2 DEF Link, Row, Stamp
  <2>5. ASSUME links'[k].uses > 1, <<links[k].user, "password">> \notin exposed' PROVE k \in contested'
    <3>1. links[k].password < rows[links[k].user].password
      BY <2>1, <2>2, <2>4, <2>5 DEF Spent
    <3>2. ~Good(links[k])
      BY <2>4, <3>1 DEF Good
    <3> QED BY <2>2, <3>2
  <2>6. contested \subseteq contested'
    BY <2>2
  <2> QED BY <2>2, <2>3, <2>4, <2>5, <2>6 DEF LinkIsSpent
<1> QED BY <1>1, <1>2, <1>3, LinksStep

-----------------------------------------------------------------------------
(* Theorems *)

\* Before anybody registers there is no row, token or link to speak of.
THEOREM InitInv == Init => Inv
<1> SUFFICES ASSUME Init PROVE Inv
  OBVIOUS
<1>1. Base
  BY InitBase
<1>2. ClaimsTrue /\ Noted /\ Spent /\ RowsAsMeant /\ OneTokenPerSession /\ LinkIsSpent
  BY DEF Init, ClaimsTrue, Noted, Spent, RowsAsMeant, OneTokenPerSession, LinkIsSpent,
         Idle, Hold
<1> QED BY <1>1, <1>2 DEF Inv

\* Every step of a request, of Billing and of the clock keeps the invariant; each
\* of its parts has a lemma.
THEOREM NextInv == Inv /\ [Next]_vars => Inv'
BY BaseStep, ClaimsStep, NotedStep, SpentStep, MeantStep, OneTokenStep, LinkStep DEF Inv

\* The inductive invariant of Accounts holds throughout.
THEOREM AccountsInvariant == Spec => []Inv
BY InitInv, NextInv, PTL DEF Spec

\* Rows, tokens, links and requests are always what Accounts says they are.
THEOREM AccountTypes == Spec => []TypeOK
<1>1. Inv => TypeOK
  BY DEF Inv, Base
<1> QED BY <1>1, AccountsInvariant, PTL

\* Who is let in had a subscription when the session began, and the row in the table
\* was not suspended, or only since the login had loaded it.
THEOREM LetInFromLogin == Spec => []LetInAtLogin
<1>1. Inv => LetInAtLogin
  BY DEF Inv, ClaimsTrue, Truthful, LetInAtLogin, LetIn, HasActiveSubscription
<1> QED BY <1>1, AccountsInvariant, PTL

\* Rotation leaves one good token per session.
THEOREM RotationIsLinear == Spec => []OneTokenPerSession
<1>1. Inv => OneTokenPerSession
  BY DEF Inv
<1> QED BY <1>1, AccountsInvariant, PTL

\* A column is what the requests about it made it, unless it was written while a
\* PATCH held an older row.
THEOREM WritesAreMeant == Spec => []RowsAsMeant
<1>1. Inv => RowsAsMeant
  BY DEF Inv
<1> QED BY <1>1, AccountsInvariant, PTL

\* A reset link sets one password, unless two requests use it at once or a PATCH puts
\* the old password back.
THEOREM LinksAreSpent == Spec => []LinkIsSpent
<1>1. Inv => LinkIsSpent
  BY DEF Inv
<1> QED BY <1>1, AccountsInvariant, PTL

LEMMA EndedStays ==
    ASSUME Inv, [Next]_vars, NEW s \in DOMAIN opened, Ended(s), s \notin forked'
    PROVE  Ended(s)'
<1> USE DEF Inv
<1>0. forked \subseteq forked'
  BY ForkedStep DEF Refresh, Logout, UseToken
<1>1. ASSUME UNCHANGED tokens PROVE Ended(s)'
  BY <1>1 DEF Ended
<1>2. ASSUME NEW t \in Web, NEW barred \in BOOLEAN, Opens(t, barred) PROVE Ended(s)'
  <2>1. PICK c \in Claims :
             /\ c.session = Len(opened) + 1
             /\ DOMAIN tokens' = DOMAIN tokens \cup {Len(tokens) + 1}
             /\ \A k \in DOMAIN tokens : tokens'[k] = tokens[k]
             /\ tokens'[Len(tokens) + 1] = [claims |-> c, black |-> FALSE]
    BY <1>2, OpenedTokens
  <2>2. c.session # s /\ tokens'[Len(tokens) + 1].claims = c
    BY <2>1 DEF Base, TypeOK
  <2> QED BY <2>1, <2>2 DEF Ended
<1>3. ASSUME NEW t \in Web, RefreshMint(t) PROVE Ended(s)'
  <2>1. PICK k \in DOMAIN tokens :
             /\ web[t].pc = "refresh" /\ web[t].item = k
             /\ DOMAIN tokens' = DOMAIN tokens \cup {Len(tokens) + 1}
             /\ \A j \in DOMAIN tokens :
                    /\ tokens'[j].claims = tokens[j].claims
                    /\ tokens'[j].black = (tokens[j].black \/ j = k)
             /\ tokens'[Len(tokens) + 1] = [claims |-> tokens[k].claims, black |-> FALSE]
    BY <1>3, MintedTokens
  <2>2. tokens[k].claims.session # s
    BY <1>0, <2>1 DEF Noted, Ended
  <2>3. tokens'[Len(tokens) + 1].claims = tokens[k].claims
    BY <2>1
  <2> QED BY <2>1, <2>2, <2>3 DEF Ended
<1>4. ASSUME NEW u \in User, NEW k \in DOMAIN tokens, Logout(u, k) PROVE Ended(s)'
  BY <1>4, LoggedOutTokens DEF Ended
<1> QED BY <1>1, <1>2, <1>3, <1>4, TokensStep

\* A session that was logged out is over.
THEOREM LogoutHolds == Spec => LogoutIsFinal
<1>1. Inv /\ [Next]_vars =>
        [\A s \in DOMAIN opened : Ended(s) /\ s \notin forked' => Ended(s)']_vars
  BY EndedStays
<1> QED BY <1>1, AccountsInvariant, PTL DEF Spec, LogoutIsFinal
=============================================================================
