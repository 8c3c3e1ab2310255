------------------------- MODULE AdminAccountsProofs -------------------------
(***************************************************************************)
(* Proofs about AdminAccounts, for any accounts, sources, limits and any   *)
(* finite number of logins and edits.                                      *)
(***************************************************************************)
EXTENDS AdminAccounts, FiniteSetTheorems, TLAPS

----------------------------------------------------------------------------
(* The inductive invariant.                                                *)

\* An account that exists has a version of its own; one that does not is blank.
UserInv(u) ==
  /\ Exists(u) => user[u].updated # 0
  /\ ~Exists(u) => user[u].is = NoAccount.is

\* Prepared, and not answered yet.
Working(q) == request[q].pc \in {"edit", "apply", "lost"}

\* An edit under way is of an account its author saw, which has the content he
\* saw as long as it has the version he saw; once applied, it does not pass again.
RequestInv(q) ==
  LET u == request[q].target
  IN /\ applied[q] \in {0, 1}
     /\ request[q].pc = "idle" => applied[q] = 0
     /\ Working(q) =>
          /\ u \in Users /\ request[q].session \in Logins
          /\ \E v \in Users : Exists(v)
          /\ IF request[q].change = "create"
             THEN /\ request[q].seen.is = NoAccount.is
                  /\ applied[q] = 1 => Exists(u)
             ELSE /\ Exists(u)
                  /\ user[u].updated = request[q].seen.updated => user[u].is = request[q].seen.is
                  /\ applied[q] = 1 => user[u].updated # request[q].seen.updated

LoginInv(l) ==
  /\ login[l].pc = "idle" => login[l].found # "no" /\ reservation[l] = "none"
  /\ login[l].pc \in {"authenticate", "touch", "settle", "create"} => login[l].user \in Users
  /\ login[l].pc = "touch" => Exists(login[l].user)

\* The failures counted lie between those that were answered and those that ended.
Answered401 == {l \in Logins : login[l].answer = "401"}
Failed == {l \in Logins : login[l].pc = "over" /\ login[l].found = "no"}

CountInv == Cardinality(Answered401) <= failures /\ failures <= Cardinality(Failed)

AccountsInv ==
  /\ \A u \in Users : UserInv(u)
  /\ \A q \in Requests : RequestInv(q)
  /\ SuperAdminRemains

LoginsInv ==
  /\ \A l \in Logins : LoginInv(l)
  /\ AdmissionBounded
  /\ CountInv

IInv == TypeOK /\ AccountsInv /\ LoginsInv

----------------------------------------------------------------------------
(* Finite sets, and versions.                                              *)

LEMMA LoginSets ==
  ASSUME NEW S \in SUBSET Logins
  PROVE  IsFiniteSet(S) /\ Cardinality(S) \in Nat
BY AdminConstants, FS_Subset, FS_CardinalityType

LEMMA AddOne ==
  ASSUME NEW S, IsFiniteSet(S), NEW x
  PROVE  /\ IsFiniteSet(S \cup {x}) /\ Cardinality(S) \in Nat
         /\ Cardinality(S \cup {x}) \in Nat
         /\ Cardinality(S \cup {x}) <= Cardinality(S) + 1
<1>1. IsFiniteSet(S \cup {x}) /\ Cardinality(S) \in Nat
  BY FS_AddElement, FS_CardinalityType
<1>2. Cardinality(S \cup {x}) = IF x \in S THEN Cardinality(S) ELSE Cardinality(S) + 1
  BY FS_AddElement
<1>3. CASE x \in S
  BY <1>1, <1>2, <1>3
<1>4. CASE x \notin S
  BY <1>1, <1>2, <1>4
<1> QED
  BY <1>3, <1>4

\* A set that gains at most one element.
LEMMA GrowsByOne ==
  ASSUME NEW S \in SUBSET Logins, NEW T \in SUBSET Logins, NEW l, T \subseteq S \cup {l}
  PROVE  Cardinality(T) <= Cardinality(S) + 1
<1>1. IsFiniteSet(S) /\ Cardinality(S) \in Nat /\ Cardinality(T) \in Nat
  BY LoginSets
<1>2. IsFiniteSet(S \cup {l}) /\ Cardinality(S \cup {l}) <= Cardinality(S) + 1
      /\ Cardinality(S \cup {l}) \in Nat
  BY <1>1, AddOne
<1>3. T \in SUBSET (S \cup {l})
  OBVIOUS
<1>4. Cardinality(T) <= Cardinality(S \cup {l})
  BY <1>2, <1>3, FS_Subset
<1> QED
  BY <1>1, <1>2, <1>4

\* A set that gains an element.
LEMMA GainsOne ==
  ASSUME NEW S \in SUBSET Logins, NEW T \in SUBSET Logins, NEW l \in Logins, l \notin S,
         S \cup {l} \subseteq T
  PROVE  Cardinality(S) + 1 <= Cardinality(T)
<1>1. IsFiniteSet(S) /\ IsFiniteSet(T) /\ Cardinality(S) \in Nat
  BY LoginSets
<1>2. Cardinality(S \cup {l}) = Cardinality(S) + 1
  BY <1>1, FS_AddElement
<1>3. Cardinality(S \cup {l}) <= Cardinality(T)
  BY <1>1, FS_Subset
<1> QED
  BY <1>2, <1>3

LEMMA Shrinks ==
  ASSUME NEW S \in SUBSET Logins, NEW T \in SUBSET S
  PROVE  Cardinality(T) <= Cardinality(S)
BY LoginSets, FS_Subset

LEMMA VersionsFinite ==
  /\ Cardinality(Requests) \in Nat /\ 0 \in Versions /\ 1 \in Versions
  /\ IsFiniteSet(Versions) /\ Cardinality(Versions) = Cardinality(Requests) + 3
<1>1. Cardinality(Requests) \in Nat
  BY AdminConstants, FS_CardinalityType
<1> QED
  BY <1>1, FS_Interval DEF Versions

\* There is a version that neither the row nor anybody who saw the row still has.
LEMMA FreshVersion ==
  ASSUME TypeOK, NEW u \in Users
  PROVE  /\ Fresh(u) \in Versions \ {0, user[u].updated}
         /\ \A q \in Requests : request[q].target = u => Fresh(u) # request[q].seen.updated
<1> DEFINE seen == [q \in Requests |-> request[q].seen.updated]
           S == {seen[q] : q \in Requests}
<1>1. IsFiniteSet(S) /\ Cardinality(S) <= Cardinality(Requests) /\ Cardinality(S) \in Nat
  <2>1. seen \in [Requests -> S] /\ \A t \in S : \E q \in Requests : seen[q] = t
    OBVIOUS
  <2> HIDE DEF seen, S
  <2>2. seen \in Surjection(Requests, S)
    BY <2>1 DEF Surjection
  <2> QED
    BY <2>2, AdminConstants, FS_Surjection, FS_CardinalityType
<1> HIDE DEF S
<1> DEFINE A == S \cup {0}
           B == A \cup {user[u].updated}
<1>2. IsFiniteSet(A) /\ Cardinality(A) <= Cardinality(S) + 1 /\ Cardinality(A) \in Nat
  BY <1>1, AddOne
<1> HIDE DEF A
<1>3. IsFiniteSet(B) /\ Cardinality(B) <= Cardinality(A) + 1 /\ Cardinality(B) \in Nat
  BY <1>2, AddOne
<1> HIDE DEF B
<1>4. Cardinality(B) < Cardinality(Versions)
  BY <1>1, <1>2, <1>3, VersionsFinite
<1>5. ~(Versions \subseteq B)
  BY <1>3, <1>4, VersionsFinite, FS_Subset
<1>6. PICK n \in Versions : n \notin B
  BY <1>5
<1>7. /\ n \notin {0, user[u].updated}
      /\ \A q \in Requests : request[q].target = u => n # request[q].seen.updated
  BY <1>6 DEF A, B, S
<1> QED
  BY <1>6, <1>7 DEF Fresh

----------------------------------------------------------------------------
(* Types.                                                                  *)

LEMMA BlankTypes ==
  /\ NoAccount \in Account /\ Super \in Account
  /\ IdleLogin \in LoginState /\ IdleRequest \in RequestState
  /\ Nobody \notin Users /\ Nobody \notin Sources /\ Nobody \notin Logins
BY AdminConstants, VersionsFinite
DEF NoAccount, Super, IdleLogin, IdleRequest, Account, Content, Roles, LoginState, RequestState

LEMMA InitTypeOK == Init => TypeOK
BY BlankTypes DEF Init, TypeOK

LEMMA FaultNat == ASSUME TypeOK, Fault PROVE faults' \in Nat
BY DEF TypeOK, Fault

LEMMA LoginRow ==
  ASSUME TypeOK, NEW l \in Logins
  PROVE  /\ login[l] \in LoginState /\ login[l].source \in Sources \cup {Nobody}
         /\ login[l].user \in Users \cup {Nobody}
BY DEF TypeOK, LoginState

LEMMA RequestRow ==
  ASSUME TypeOK, NEW q \in Requests
  PROVE  request[q] \in RequestState /\ request[q].seen \in Account
BY DEF TypeOK, RequestState

LEMMA UserRow ==
  ASSUME TypeOK, NEW u \in Users
  PROVE  user[u] \in Account /\ user[u].is \in Content /\ user[u].updated \in Versions
BY DEF TypeOK, Account

\* A login that answers keeps its source and forgets its account.
LEMMA OverState ==
  ASSUME TypeOK, NEW l \in Logins, NEW answer \in {"none", "ok", "401", "refused"},
         Over(l, answer)
  PROVE  /\ login' \in [Logins -> LoginState]
         /\ \A k \in Logins \ {l} : login'[k] = login[k]
         /\ login'[l].pc = "over" /\ login'[l].answer = answer
         /\ login'[l].source = login[l].source
         /\ login'[l].found = "no" <=> login[l].found = "no"
<1> DEFINE found == IF login[l].found = "no" THEN "no" ELSE "unknown"
           new == [IdleLogin EXCEPT !.pc = "over", !.answer = answer, !.source = login[l].source,
                                    !.found = found]
<1>1. login[l].source \in Sources \cup {Nobody} /\ found \in {"unknown", "no"}
  BY LoginRow
<1> HIDE DEF found
<1>2. /\ new \in LoginState /\ new.pc = "over" /\ new.answer = answer
      /\ new.source = login[l].source /\ new.found = found
  BY <1>1 DEF IdleLogin, LoginState
<1> HIDE DEF new
<1>3. login' = [login EXCEPT ![l] = new]
  BY DEF Over, SetLogin, new, found
<1> QED
  BY <1>2, <1>3 DEF TypeOK, found

\* A login that goes on to its next call.
GoesOn(l) ==
  /\ login' \in [Logins -> LoginState]
  /\ \A k \in Logins \ {l} : login'[k] = login[k]
  /\ login'[l].source = login[l].source /\ login'[l].user = login[l].user
  /\ login'[l].answer = login[l].answer

LEMMA NextCall ==
  ASSUME TypeOK, NEW l \in Logins, NEW pc \in {"touch", "settle", "create"},
         SetLogin(l, [login[l] EXCEPT !.pc = pc])
  PROVE  GoesOn(l) /\ login'[l].pc = pc /\ login'[l].found = login[l].found
<1> DEFINE old == login[l]
<1>1. old \in LoginState
  BY DEF TypeOK
<1> HIDE DEF old
<1> DEFINE new == [old EXCEPT !.pc = pc]
<1>2. /\ new \in LoginState /\ new.pc = pc /\ new.found = old.found
      /\ new.source = old.source /\ new.user = old.user /\ new.answer = old.answer
  BY <1>1 DEF LoginState
<1>3. login' = [login EXCEPT ![l] = new]
  BY DEF SetLogin, old
<1> HIDE DEF new
<1> QED
  BY <1>2, <1>3 DEF TypeOK, GoesOn, old

LEMMA AuthenticateCall ==
  ASSUME TypeOK, NEW l \in Logins, Authenticate(l)
  PROVE  /\ GoesOn(l)
         /\ \/ login'[l].pc = "touch" /\ user[login[l].user].is.active
            \/ login'[l].pc = "settle"
<1> DEFINE old == login[l]
<1>1. old \in LoginState
  BY DEF TypeOK
<1> HIDE DEF old
<1>2. ASSUME NEW pc \in {"touch", "settle"}, NEW found \in {"yes", "no", "error"},
             login' = [login EXCEPT ![l] = [old EXCEPT !.pc = pc, !.found = found]]
      PROVE  GoesOn(l) /\ login'[l].pc = pc
  <2> DEFINE new == [old EXCEPT !.pc = pc, !.found = found]
  <2>1. /\ new \in LoginState /\ new.pc = pc
        /\ new.source = old.source /\ new.user = old.user /\ new.answer = old.answer
    BY <1>1 DEF LoginState
  <2>2. login' = [login EXCEPT ![l] = new]
    BY <1>2
  <2> HIDE DEF new
  <2> QED
    BY <2>1, <2>2 DEF TypeOK, GoesOn, old
<1>3. CASE /\ user[login[l].user].is.active
           /\ login' = [login EXCEPT ![l] = [old EXCEPT !.pc = "touch", !.found = "yes"]]
  BY <1>2, <1>3
<1>4. CASE login' = [login EXCEPT ![l] = [old EXCEPT !.pc = "settle", !.found = "no"]]
  BY <1>2, <1>4
<1>5. CASE login' = [login EXCEPT ![l] = [old EXCEPT !.pc = "settle", !.found = "error"]]
  BY <1>2, <1>5
<1> QED
  BY <1>3, <1>4, <1>5 DEF Authenticate, SetLogin, old

\* A request is typed when its new state is.
LEMMA NewRequest ==
  ASSUME TypeOK, NEW q \in Requests, NEW new \in RequestState, SetRequest(q, new)
  PROVE  /\ request' \in [Requests -> RequestState] /\ request'[q] = new
         /\ \A p \in Requests \ {q} : request'[p] = request[p]
BY DEF TypeOK, SetRequest

LEMMA NextPhase ==
  ASSUME TypeOK, NEW q \in Requests, NEW pc \in {"apply", "lost"},
         SetRequest(q, [request[q] EXCEPT !.pc = pc])
  PROVE  /\ request' \in [Requests -> RequestState]
         /\ \A p \in Requests \ {q} : request'[p] = request[p]
         /\ request'[q].pc = pc /\ request'[q].session = request[q].session
         /\ request'[q].target = request[q].target /\ request'[q].change = request[q].change
         /\ request'[q].seen = request[q].seen
<1> DEFINE old == request[q]
<1>1. old \in RequestState
  BY RequestRow
<1> HIDE DEF old
<1> DEFINE new == [old EXCEPT !.pc = pc]
<1>2. /\ new \in RequestState /\ new.pc = pc /\ new.session = old.session
      /\ new.target = old.target /\ new.change = old.change /\ new.seen = old.seen
  BY <1>1 DEF RequestState
<1>3. SetRequest(q, new)
  BY DEF old
<1> HIDE DEF new
<1> QED
  BY <1>2, <1>3, NewRequest DEF old

LEMMA AnsweredState ==
  Answered \in RequestState /\ Answered.pc = "over"
BY BlankTypes DEF Answered, IdleRequest, RequestState

\* An edit makes an account of content that exists.
LEMMA EditedType ==
  ASSUME TypeOK, NEW q \in Requests, request[q].target \in Users,
         request[q].change = "create" \/ Exists(request[q].target)
  PROVE  Edited(q) \in Content /\ Edited(q).role # "none"
<1> DEFINE old == user[request[q].target].is
<1>1. old \in Content /\ (request[q].change # "create" => old.role # "none")
  BY UserRow DEF Exists
<1>2. /\ request[q].role \in Roles
      /\ request[q].change \in {"create", "promote", "demote", "enable", "disable", "password"}
  BY RequestRow DEF RequestState
<1>3. CASE request[q].change = "create"
  <2>1. Edited(q) = [role |-> request[q].role, active |-> TRUE, by |-> q]
    BY <1>3 DEF Edited
  <2> QED
    BY <1>2, <2>1 DEF Content, Roles
<1>4. CASE request[q].change # "create"
  <2> HIDE DEF old
  <2>1. \/ Edited(q) = [old EXCEPT !.role = "super_admin", !.by = q]
        \/ Edited(q) = [old EXCEPT !.role = "operator", !.by = q]
        \/ Edited(q) = [old EXCEPT !.active = TRUE, !.by = q]
        \/ Edited(q) = [old EXCEPT !.active = FALSE, !.by = q]
        \/ Edited(q) = [old EXCEPT !.by = q]
    BY <1>2, <1>4, Zenon DEF Edited, old
  <2> QED
    BY <1>1, <1>4, <2>1 DEF Content, Roles
<1> QED
  BY <1>3, <1>4

----------------------------------------------------------------------------
(* What a step leaves of the invariant: the part about logins.             *)

\* No account disappears.
ExistsStays == \A u \in Users : Exists(u) => Exists(u)'

LEMMA LoginsSame ==
  ASSUME LoginsInv, ExistsStays, UNCHANGED <<login, reservation, failures>>
  PROVE  LoginsInv'
<1>0. \A l \in Logins : login[l].pc \in {"authenticate", "touch", "settle", "create"} =>
         login[l].user \in Users
  BY DEF LoginsInv, LoginInv
<1>1. \A l \in Logins : LoginInv(l)'
  BY <1>0 DEF LoginsInv, LoginInv, ExistsStays
<1>2. AdmissionBounded' /\ CountInv'
  BY DEF LoginsInv, AdmissionBounded, CountInv, Held, Answered401, Failed
<1> QED
  BY <1>1, <1>2 DEF LoginsInv

LEMMA OthersGoOn ==
  ASSUME LoginsInv, ExistsStays, NEW l \in Logins, LoginInv(l)',
         \A k \in Logins \ {l} : login'[k] = login[k],
         \A k \in Logins \ {l} : reservation[k] = "none" => reservation'[k] = "none"
  PROVE  \A k \in Logins : LoginInv(k)'
<1> SUFFICES ASSUME NEW k \in Logins \ {l}
             PROVE  LoginInv(k)'
  OBVIOUS
<1>1. LoginInv(k) /\ login'[k] = login[k] /\ (reservation[k] = "none" => reservation'[k] = "none")
  BY DEF LoginsInv
<1> QED
  BY <1>1 DEF LoginInv, ExistsStays

\* No reservation is made.
LEMMA NoneAdmitted ==
  ASSUME AdmissionBounded,
         \A k \in Logins : reservation'[k] = "held" =>
           reservation[k] = "held" /\ login'[k].source = login[k].source
  PROVE  AdmissionBounded'
<1>1. Cardinality({k \in Logins : Held(k)}') <= MaxActive
  <2> DEFINE S == {k \in Logins : Held(k)}
             T == {k \in Logins : reservation'[k] = "held"}
  <2>1. S \in SUBSET Logins /\ T \in SUBSET S
    BY DEF Held
  <2>2. Cardinality(S) <= MaxActive
    BY DEF AdmissionBounded
  <2>3. T \in SUBSET Logins
    OBVIOUS
  <2> HIDE DEF S, T
  <2>4. Cardinality(T) <= MaxActive
    BY <2>1, <2>2, <2>3, Shrinks, LoginSets, AdminConstants
  <2> QED
    BY <2>4 DEF T, Held
<1>2. ASSUME NEW s \in Sources
      PROVE  Cardinality({k \in Logins : Held(k) /\ login[k].source = s}') <= MaxPerSource
  <2> DEFINE S == {k \in Logins : Held(k) /\ login[k].source = s}
             T == {k \in Logins : reservation'[k] = "held" /\ login'[k].source = s}
  <2>1. S \in SUBSET Logins /\ T \in SUBSET S
    BY DEF Held
  <2>2. Cardinality(S) <= MaxPerSource
    BY DEF AdmissionBounded
  <2>3. T \in SUBSET Logins
    OBVIOUS
  <2> HIDE DEF S, T
  <2>4. Cardinality(T) <= MaxPerSource
    BY <2>1, <2>2, <2>3, Shrinks, LoginSets, AdminConstants
  <2> QED
    BY <2>4 DEF T, Held
<1> QED
  BY <1>1, <1>2 DEF AdmissionBounded

\* A login is admitted, the limits permitting.
LEMMA OneAdmitted ==
  ASSUME AdmissionBounded, NEW l \in Logins,
         ~Full({k \in Logins : Held(k)}, MaxActive),
         \A s \in Sources :
           ~Full({k \in Logins : Held(k) /\ login[k].source = s}, MaxPerSource)
           \/ login'[l].source # s,
         \A k \in Logins \ {l} : reservation'[k] = "held" =>
           reservation[k] = "held" /\ login'[k].source = login[k].source
  PROVE  AdmissionBounded'
<1>1. Cardinality({k \in Logins : Held(k)}') <= MaxActive
  <2> DEFINE S == {k \in Logins : Held(k)}
             T == {k \in Logins : reservation'[k] = "held"}
  <2>1. S \in SUBSET Logins /\ T \in SUBSET Logins /\ T \subseteq S \cup {l}
    BY DEF Held
  <2>2. ~(Cardinality(S) >= MaxActive)
    BY DEF Full
  <2> HIDE DEF S, T
  <2>3. Cardinality(S) \in Nat /\ Cardinality(T) \in Nat
    BY <2>1, LoginSets
  <2>4. Cardinality(T) <= Cardinality(S) + 1
    BY <2>1, GrowsByOne
  <2>5. Cardinality(T) <= MaxActive
    BY <2>2, <2>3, <2>4, AdminConstants
  <2> QED
    BY <2>5 DEF T, Held
<1>2. ASSUME NEW s \in Sources
      PROVE  Cardinality({k \in Logins : Held(k) /\ login[k].source = s}') <= MaxPerSource
  <2> DEFINE S == {k \in Logins : Held(k) /\ login[k].source = s}
             T == {k \in Logins : reservation'[k] = "held" /\ login'[k].source = s}
  <2>1. S \in SUBSET Logins /\ T \in SUBSET Logins /\ T \subseteq S \cup {l}
        /\ (login'[l].source # s => T \in SUBSET S)
    BY DEF Held
  <2>2. ~(Cardinality(S) >= MaxPerSource) \/ login'[l].source # s
    BY DEF Full
  <2>3. Cardinality(S) <= MaxPerSource
    BY DEF AdmissionBounded
  <2> HIDE DEF S, T
  <2>4. Cardinality(S) \in Nat /\ Cardinality(T) \in Nat
    BY <2>1, LoginSets
  <2>5. ASSUME ~(Cardinality(S) >= MaxPerSource)
        PROVE  Cardinality(T) <= MaxPerSource
    <3>1. Cardinality(T) <= Cardinality(S) + 1
      BY <2>1, GrowsByOne
    <3> QED
      BY <2>4, <2>5, <3>1, AdminConstants
  <2>6. ASSUME login'[l].source # s
        PROVE  Cardinality(T) <= MaxPerSource
    <3>1. Cardinality(T) <= Cardinality(S)
      BY <2>1, <2>6, Shrinks
    <3> QED
      BY <2>3, <2>4, <3>1, AdminConstants
  <2>7. Cardinality(T) <= MaxPerSource
    BY <2>2, <2>5, <2>6
  <2> QED
    BY <2>7 DEF T, Held
<1> QED
  BY <1>1, <1>2 DEF AdmissionBounded

\* No failure is counted.
LEMMA NoneCounted ==
  ASSUME TypeOK, CountInv, UNCHANGED failures,
         \A k \in Logins : login'[k].answer = "401" => login[k].answer = "401",
         \A k \in Logins : login[k].pc = "over" /\ login[k].found = "no" =>
           login'[k].pc = "over" /\ login'[k].found = "no"
  PROVE  CountInv'
<1> DEFINE A == {k \in Logins : login'[k].answer = "401"}
           F == {k \in Logins : login'[k].pc = "over" /\ login'[k].found = "no"}
<1>1. A \in SUBSET Answered401 /\ Answered401 \in SUBSET Logins
  BY DEF Answered401
<1>2. Failed \in SUBSET F /\ F \in SUBSET Logins
  BY DEF Failed
<1>3. A \in SUBSET Logins /\ Failed \in SUBSET Logins
  BY <1>1, <1>2
<1>4. Answered401' = A /\ Failed' = F
  BY DEF Answered401, Failed
<1> HIDE DEF A, F
<1>5. Cardinality(A) <= Cardinality(Answered401) /\ Cardinality(Failed) <= Cardinality(F)
  BY <1>1, <1>2, Shrinks
<1>6. /\ Cardinality(A) \in Nat /\ Cardinality(Answered401) \in Nat
      /\ Cardinality(Failed) \in Nat /\ Cardinality(F) \in Nat
  BY <1>1, <1>2, <1>3, LoginSets
<1>7. Cardinality(A) <= failures /\ failures <= Cardinality(F)
  BY <1>5, <1>6 DEF TypeOK, CountInv
<1> QED
  BY <1>4, <1>7 DEF CountInv

\* A failure is counted as its login ends.
LEMMA OneCounted ==
  ASSUME TypeOK, CountInv, NEW l \in Logins, failures' = failures + 1,
         login[l].pc # "over", login'[l].pc = "over", login'[l].found = "no",
         \A k \in Logins \ {l} : login'[k] = login[k]
  PROVE  CountInv'
<1> DEFINE A == {k \in Logins : login'[k].answer = "401"}
           F == {k \in Logins : login'[k].pc = "over" /\ login'[k].found = "no"}
<1>1. /\ A \in SUBSET Logins /\ Answered401 \in SUBSET Logins
      /\ F \in SUBSET Logins /\ Failed \in SUBSET Logins
  BY DEF Answered401, Failed
<1>2. A \subseteq Answered401 \cup {l}
  BY DEF Answered401
<1>3. l \notin Failed /\ Failed \cup {l} \subseteq F
  BY DEF Failed
<1>4. Answered401' = A /\ Failed' = F
  BY DEF Answered401, Failed
<1> HIDE DEF A, F
<1>5. Cardinality(A) <= Cardinality(Answered401) + 1
  BY <1>1, <1>2, GrowsByOne
<1>6. Cardinality(Failed) + 1 <= Cardinality(F)
  BY <1>1, <1>3, GainsOne
<1>7. /\ Cardinality(A) \in Nat /\ Cardinality(Answered401) \in Nat
      /\ Cardinality(Failed) \in Nat /\ Cardinality(F) \in Nat
  BY <1>1, LoginSets
<1>8. Cardinality(A) <= failures + 1 /\ failures + 1 <= Cardinality(F)
  BY <1>5, <1>6, <1>7 DEF TypeOK, CountInv
<1> QED
  BY <1>4, <1>8 DEF CountInv

----------------------------------------------------------------------------
(* What a step leaves of the invariant: the part about accounts.           *)

LEMMA AccountsSame ==
  ASSUME AccountsInv, UNCHANGED <<user, request, applied>>
  PROVE  AccountsInv' /\ ExistsStays
BY DEF AccountsInv, UserInv, RequestInv, Working, SuperAdminRemains, Exists, ActiveSuper, ExistsStays

\* An account was written, and exists.
Wrote(u) ==
  /\ user' \in [Users -> Account]
  /\ \A v \in Users \ {u} : user'[v] = user[v]
  /\ user'[u].updated = Fresh(u) /\ user'[u].is.role # "none"

LEMMA WroteUsers ==
  ASSUME TypeOK, AccountsInv, NEW u \in Users, Wrote(u)
  PROVE  (\A v \in Users : UserInv(v)') /\ ExistsStays
<1>1. Fresh(u) # 0
  BY FreshVersion
<1>2. UserInv(u)'
  BY <1>1 DEF Wrote, UserInv, Exists
<1>3. ASSUME NEW v \in Users \ {u}
      PROVE  UserInv(v)'
  <2>1. UserInv(v) /\ user'[v] = user[v]
    BY DEF AccountsInv, Wrote
  <2> QED
    BY <2>1 DEF UserInv, Exists
<1>4. ExistsStays
  BY DEF Wrote, ExistsStays, Exists
<1> QED
  BY <1>2, <1>3, <1>4

\* Whoever saw the account before no longer sees its version.
LEMMA WroteRequest ==
  ASSUME TypeOK, AccountsInv, NEW u \in Users, Wrote(u), NEW q \in Requests,
         request'[q] = request[q], applied'[q] = applied[q]
  PROVE  RequestInv(q)'
<1>1. RequestInv(q) /\ ExistsStays
  BY WroteUsers DEF AccountsInv
<1>2. request[q].target = u => Fresh(u) # request[q].seen.updated
  BY FreshVersion
<1>3. \E v \in Users : Exists(v)'
  BY DEF Wrote, Exists
<1>4. applied'[q] \in {0, 1} /\ (request'[q].pc = "idle" => applied'[q] = 0)
  BY <1>1 DEF RequestInv
<1>5. ASSUME Working(q)
      PROVE  LET v == request[q].target
             IN /\ v \in Users /\ request[q].session \in Logins
                /\ IF request[q].change = "create"
                   THEN /\ request[q].seen.is = NoAccount.is
                        /\ applied[q] = 1 => Exists(v)'
                   ELSE /\ Exists(v)'
                        /\ user'[v].updated = request[q].seen.updated => user'[v].is = request[q].seen.is
                        /\ applied[q] = 1 => user'[v].updated # request[q].seen.updated
  <2>1. request[q].target \in Users /\ request[q].session \in Logins
    BY <1>1, <1>5 DEF RequestInv
  <2>2. CASE request[q].target = u
    BY <1>1, <1>2, <1>5, <2>1, <2>2 DEF RequestInv, Wrote, Exists
  <2>3. CASE request[q].target # u
    BY <1>1, <1>5, <2>1, <2>3 DEF RequestInv, Wrote, Exists
  <2> QED
    BY <2>2, <2>3
<1> QED
  BY <1>3, <1>4, <1>5 DEF RequestInv, Working

\* A request that is not at work has little to keep.
LEMMA AtRest ==
  ASSUME NEW q \in Requests, request'[q].pc = "over", applied'[q] \in {0, 1}
  PROVE  RequestInv(q)'
BY DEF RequestInv, Working

----------------------------------------------------------------------------
(* The steps of a login.                                                   *)

LEMMA ReserveStep ==
  ASSUME IInv, NEW l \in Logins, Reserve(l)
  PROVE  IInv'
<1> USE DEF IInv
<1>1. AccountsInv' /\ ExistsStays
  BY AccountsSame DEF Reserve
<1>2. PICK u \in Users, s \in Sources \cup {Nobody} :
         LET kept == [k \in Logins |-> IF reservation[k] = "expired" THEN "none" ELSE reservation[k]]
             crowded == Full({k \in Logins : Held(k)}, MaxActive)
             sourceCrowded ==
               /\ s # Nobody
               /\ \/ attempts[s] >= MaxAttempts
                  \/ Full({k \in Logins : Held(k) /\ login[k].source = s}, MaxPerSource)
             admitted == ~crowded /\ ~sourceCrowded
             counted == IF crowded \/ s = Nobody \/ attempts[s] > MaxAttempts THEN attempts
                        ELSE [attempts EXCEPT ![s] = @ + 1]
             state == [IdleLogin EXCEPT !.user = u, !.source = s]
         IN /\ reservation' = IF admitted THEN [kept EXCEPT ![l] = "held"] ELSE kept
            /\ attempts' = counted
            /\ \/ /\ UNCHANGED faults
                  /\ SetLogin(l, IF admitted THEN [state EXCEPT !.pc = "authenticate"]
                                 ELSE [IdleLogin EXCEPT !.pc = "over", !.answer = "refused"])
               \/ /\ Fault
                  /\ SetLogin(l, [state EXCEPT !.pc = "over", !.answer = "refused", !.user = Nobody])
  BY Zenon DEF Reserve
<1> DEFINE kept == [k \in Logins |-> IF reservation[k] = "expired" THEN "none" ELSE reservation[k]]
           admitted == /\ ~Full({k \in Logins : Held(k)}, MaxActive)
                       /\ s # Nobody => ~Full({k \in Logins : Held(k) /\ login[k].source = s}, MaxPerSource)
<1>3. /\ \/ reservation' = [kept EXCEPT ![l] = "held"] /\ admitted
         \/ reservation' = kept
      /\ attempts' \in [Sources -> Nat]
      /\ faults' \in Nat
  <2>1. faults' \in Nat
    BY <1>2, FaultNat DEF TypeOK
  <2>2. attempts' \in [Sources -> Nat]
    BY <1>2, BlankTypes DEF TypeOK
  <2> QED
    BY <1>2, <2>1, <2>2, Zenon
<1>4. PICK state :
         /\ SetLogin(l, state)
         /\ \/ state = [[IdleLogin EXCEPT !.user = u, !.source = s] EXCEPT !.pc = "authenticate"]
            \/ state = [IdleLogin EXCEPT !.pc = "over", !.answer = "refused"]
            \/ state = [[IdleLogin EXCEPT !.user = u, !.source = s] EXCEPT
                          !.pc = "over", !.answer = "refused", !.user = Nobody]
  BY <1>2, Zenon
<1>5. /\ state \in LoginState /\ state.pc \in {"authenticate", "over"}
      /\ state.found = "unknown" /\ state.answer # "401" /\ state.source \in {s, Nobody}
      /\ state.pc = "authenticate" => state.user \in Users
  BY <1>4 DEF IdleLogin, LoginState
<1>6. /\ login' \in [Logins -> LoginState] /\ login'[l] = state
      /\ \A k \in Logins \ {l} : login'[k] = login[k]
  BY <1>4, <1>5 DEF SetLogin, TypeOK
<1>7. login[l].pc = "idle" /\ reservation[l] = "none"
  BY DEF Reserve, LoginsInv, LoginInv
<1>8. /\ reservation' \in [Logins -> {"none", "held", "expired"}]
      /\ \A k \in Logins \ {l} : reservation'[k] = reservation[k] \/ reservation'[k] = "none"
      /\ reservation' = kept => reservation'[l] = "none"
  BY <1>3, <1>7 DEF TypeOK
<1>9. TypeOK'
  BY <1>3, <1>6, <1>8 DEF TypeOK, Reserve
<1>10. \A k \in Logins : LoginInv(k)'
  <2>1. LoginInv(l)'
    BY <1>5, <1>6 DEF LoginInv
  <2> QED
    BY <1>1, <1>6, <1>8, <2>1, OthersGoOn
<1>11. AdmissionBounded'
  <2>1. AdmissionBounded
    BY DEF LoginsInv
  <2>2. CASE admitted
    <3>1. ASSUME NEW t \in Sources
          PROVE  ~Full({k \in Logins : Held(k) /\ login[k].source = t}, MaxPerSource)
                 \/ login'[l].source # t
      BY <1>5, <1>6, <2>2, BlankTypes
    <3>2. \A k \in Logins \ {l} : reservation'[k] = "held" =>
            reservation[k] = "held" /\ login'[k].source = login[k].source
      BY <1>6, <1>8
    <3> HIDE DEF kept
    <3> QED
      BY <2>1, <2>2, <3>1, <3>2, OneAdmitted
  <2>3. CASE reservation' = kept
    <3>1. \A k \in Logins : reservation'[k] = "held" =>
            reservation[k] = "held" /\ login'[k].source = login[k].source
      BY <1>6, <1>8, <2>3
    <3> HIDE DEF kept
    <3> QED
      BY <2>1, <3>1, NoneAdmitted
  <2> QED
    BY <1>3, <2>2, <2>3
<1>12. CountInv'
  <2>1. \A k \in Logins : login'[k].answer = "401" => login[k].answer = "401"
    BY <1>5, <1>6
  <2>2. \A k \in Logins : login[k].pc = "over" /\ login[k].found = "no" =>
           login'[k].pc = "over" /\ login'[k].found = "no"
    BY <1>6, <1>7
  <2>3. UNCHANGED failures /\ CountInv
    BY DEF Reserve, LoginsInv
  <2> QED
    BY <2>1, <2>2, <2>3, NoneCounted
<1> QED
  BY <1>1, <1>9, <1>10, <1>11, <1>12 DEF LoginsInv

\* A login that goes on, its reservation as it was.
LEMMA GoesOnKeeps ==
  ASSUME TypeOK, LoginsInv, ExistsStays, NEW l \in Logins, GoesOn(l),
         UNCHANGED <<reservation, failures>>, login[l].pc # "over",
         login'[l].pc \in {"touch", "settle", "create"},
         login[l].user \in Users, login'[l].pc = "touch" => Exists(login[l].user)
  PROVE  LoginsInv'
<1>1. LoginInv(l)'
  BY DEF LoginInv, GoesOn, ExistsStays
<1>2. \A k \in Logins : LoginInv(k)'
  BY <1>1, OthersGoOn DEF GoesOn
<1>3. AdmissionBounded'
  BY NoneAdmitted DEF LoginsInv, GoesOn
<1>4. CountInv'
  <2>1. \A k \in Logins : login'[k].answer = "401" => login[k].answer = "401"
    BY DEF GoesOn
  <2>2. \A k \in Logins : login[k].pc = "over" /\ login[k].found = "no" =>
           login'[k].pc = "over" /\ login'[k].found = "no"
    BY DEF GoesOn
  <2> QED
    BY <2>1, <2>2, NoneCounted DEF LoginsInv
<1> QED
  BY <1>2, <1>3, <1>4 DEF LoginsInv

\* A login that ends without anything being counted.
LEMMA EndsUncounted ==
  ASSUME TypeOK, LoginsInv, ExistsStays, NEW l \in Logins, NEW answer \in {"none", "ok", "refused"},
         Over(l, answer), UNCHANGED failures, login[l].pc # "over",
         \A k \in Logins : reservation'[k] \in {reservation[k], "none"}
  PROVE  LoginsInv'
<1>1. /\ \A k \in Logins \ {l} : login'[k] = login[k]
      /\ login'[l].pc = "over" /\ login'[l].answer = answer
      /\ login'[l].source = login[l].source
      /\ login'[l].found = "no" <=> login[l].found = "no"
  BY OverState
<1>2. LoginInv(l)'
  BY <1>1 DEF LoginInv
<1>3. \A k \in Logins : LoginInv(k)'
  BY <1>1, <1>2, OthersGoOn
<1>4. AdmissionBounded'
  <2>1. \A k \in Logins : reservation'[k] = "held" =>
          reservation[k] = "held" /\ login'[k].source = login[k].source
    BY <1>1
  <2> QED
    BY <2>1, NoneAdmitted DEF LoginsInv
<1>5. CountInv'
  <2>1. \A k \in Logins : login'[k].answer = "401" => login[k].answer = "401"
    BY <1>1
  <2>2. \A k \in Logins : login[k].pc = "over" /\ login[k].found = "no" =>
           login'[k].pc = "over" /\ login'[k].found = "no"
    BY <1>1
  <2> QED
    BY <2>1, <2>2, NoneCounted DEF LoginsInv
<1> QED
  BY <1>3, <1>4, <1>5 DEF LoginsInv

\* A login that ends as its failure is counted.
LEMMA EndsCounted ==
  ASSUME TypeOK, LoginsInv, ExistsStays, NEW l \in Logins, NEW answer \in {"401", "refused"},
         Over(l, answer), failures' = failures + 1, login[l].pc # "over", login[l].found = "no",
         \A k \in Logins : reservation'[k] \in {reservation[k], "none"}
  PROVE  LoginsInv'
<1>1. /\ \A k \in Logins \ {l} : login'[k] = login[k]
      /\ login'[l].pc = "over" /\ login'[l].found = "no"
      /\ login'[l].source = login[l].source
  BY OverState
<1>2. LoginInv(l)'
  BY <1>1 DEF LoginInv
<1>3. \A k \in Logins : LoginInv(k)'
  BY <1>1, <1>2, OthersGoOn
<1>4. AdmissionBounded'
  <2>1. \A k \in Logins : reservation'[k] = "held" =>
          reservation[k] = "held" /\ login'[k].source = login[k].source
    BY <1>1
  <2> QED
    BY <2>1, NoneAdmitted DEF LoginsInv
<1>5. CountInv'
  BY <1>1, OneCounted DEF LoginsInv
<1> QED
  BY <1>3, <1>4, <1>5 DEF LoginsInv

LEMMA AuthenticateStep ==
  ASSUME IInv, NEW l \in Logins, Authenticate(l)
  PROVE  IInv'
<1> USE DEF IInv
<1>1. AccountsInv' /\ ExistsStays
  BY AccountsSame DEF Authenticate
<1>2. /\ GoesOn(l)
      /\ \/ login'[l].pc = "touch" /\ user[login[l].user].is.active
         \/ login'[l].pc = "settle"
  BY AuthenticateCall
<1>3. login[l].pc = "authenticate" /\ login[l].user \in Users
  BY DEF Authenticate, LoginsInv, LoginInv
<1>4. UserInv(login[l].user)
  BY <1>3 DEF AccountsInv
<1>5. user[login[l].user].is.active => Exists(login[l].user)
  BY <1>4 DEF UserInv, NoAccount
<1>6. LoginsInv'
  BY <1>1, <1>2, <1>3, <1>5, GoesOnKeeps DEF Authenticate
<1>7. TypeOK'
  BY <1>2, FaultNat DEF Authenticate, GoesOn, TypeOK
<1> QED
  BY <1>1, <1>6, <1>7

LEMMA TouchStep ==
  ASSUME IInv, NEW l \in Logins, Touch(l)
  PROVE  IInv'
<1> USE DEF IInv
<1>1. PICK u \in Users : login[l].user = u /\ Exists(u)
  BY DEF Touch, LoginsInv, LoginInv
<1>2. GoesOn(l) /\ login'[l].pc = "settle"
  BY NextCall DEF Touch
<1>3. \/ UNCHANGED user
      \/ user' = [user EXCEPT ![u].updated = Fresh(u)]
  BY <1>1 DEF Touch
<1>4. UNCHANGED user \/ Wrote(u)
  <2>1. ASSUME user' = [user EXCEPT ![u].updated = Fresh(u)]
        PROVE  Wrote(u)
    <3> DEFINE old == user[u]
    <3>1. old \in Account /\ Fresh(u) \in Versions /\ old.is.role # "none"
      BY <1>1, UserRow, FreshVersion DEF Exists
    <3>2. user' = [user EXCEPT ![u] = [old EXCEPT !.updated = Fresh(u)]]
      BY <2>1
    <3> HIDE DEF old
    <3> DEFINE new == [old EXCEPT !.updated = Fresh(u)]
    <3>3. new \in Account /\ new.updated = Fresh(u) /\ new.is.role # "none"
      BY <3>1 DEF Account
    <3>4. user' = [user EXCEPT ![u] = new]
      BY <3>2
    <3> HIDE DEF new
    <3> QED
      BY <3>3, <3>4 DEF TypeOK, Wrote
  <2> QED
    BY <1>3, <2>1
<1>5. AccountsInv' /\ ExistsStays
  <2>1. CASE UNCHANGED user
    BY <2>1, AccountsSame DEF Touch
  <2>2. CASE Wrote(u)
    <3>1. (\A v \in Users : UserInv(v)') /\ ExistsStays
      BY <2>2, WroteUsers
    <3>2. \A q \in Requests : RequestInv(q)'
      BY <2>2, WroteRequest DEF Touch
    <3>3. SuperAdminRemains'
      <4>1. \A v \in Users : user'[v].is = user[v].is \/ v = u
        BY <2>2 DEF Wrote
      <4>2. user'[u].is = user[u].is
        BY <1>3 DEF TypeOK, Account
      <4> QED
        BY <1>1, <4>1, <4>2 DEF AccountsInv, SuperAdminRemains, Exists, ActiveSuper
    <3> QED
      BY <3>1, <3>2, <3>3 DEF AccountsInv
  <2> QED
    BY <1>4, <2>1, <2>2
<1>6. LoginsInv'
  BY <1>1, <1>2, <1>5, GoesOnKeeps DEF Touch
<1>7. TypeOK'
  <2>1. user' \in [Users -> Account]
    BY <1>4 DEF Wrote, TypeOK
  <2>2. faults' \in Nat
    BY FaultNat DEF Touch, TypeOK
  <2> QED
    BY <1>2, <2>1, <2>2 DEF Touch, GoesOn, TypeOK
<1> QED
  BY <1>5, <1>6, <1>7

LEMMA SettleStep ==
  ASSUME IInv, NEW l \in Logins, Settle(l)
  PROVE  IInv'
<1> USE DEF IInv
<1>1. AccountsInv' /\ ExistsStays
  BY AccountsSame DEF Settle
<1>2. login[l].pc = "settle" /\ login[l].user \in Users
  BY DEF Settle, LoginsInv, LoginInv
<1>3. \A k \in Logins : reservation'[k] \in {reservation[k], "none"}
  BY DEF Settle, TypeOK
<1>4. TypeOK' /\ LoginsInv'
  <2>0. /\ UNCHANGED <<user, session, attempts, request, applied>>
        /\ faults' \in Nat
        /\ reservation' \in [Logins -> {"none", "held", "expired"}]
        /\ failures' \in Nat
    BY FaultNat DEF Settle, TypeOK
  <2>1. ASSUME login' \in [Logins -> LoginState]
        PROVE  TypeOK'
    BY <2>0, <2>1 DEF TypeOK
  <2>2. CASE SetLogin(l, [login[l] EXCEPT !.pc = "create"]) /\ UNCHANGED failures
    <3>1. GoesOn(l) /\ login'[l].pc = "create"
      BY <2>2, NextCall
    <3>2. LoginInv(l)'
      BY <1>2, <3>1 DEF LoginInv, GoesOn
    <3>3. \A k \in Logins : LoginInv(k)'
      BY <1>1, <1>3, <3>1, <3>2, OthersGoOn DEF GoesOn
    <3>4. AdmissionBounded'
      <4>1. \A k \in Logins : reservation'[k] = "held" =>
              reservation[k] = "held" /\ login'[k].source = login[k].source
        BY <1>3, <3>1 DEF GoesOn
      <4> QED
        BY <4>1, NoneAdmitted DEF LoginsInv
    <3>5. CountInv'
      <4>1. \A k \in Logins : login'[k].answer = "401" => login[k].answer = "401"
        BY <3>1 DEF GoesOn
      <4>2. \A k \in Logins : login[k].pc = "over" /\ login[k].found = "no" =>
               login'[k].pc = "over" /\ login'[k].found = "no"
        BY <1>2, <3>1 DEF GoesOn
      <4> QED
        BY <2>2, <4>1, <4>2, NoneCounted DEF LoginsInv
    <3> QED
      BY <2>1, <3>1, <3>3, <3>4, <3>5 DEF LoginsInv, GoesOn
  <2>3. CASE Over(l, "refused") /\ UNCHANGED failures
    BY <1>1, <1>2, <1>3, <2>1, <2>3, OverState, EndsUncounted
  <2>4. CASE \E answer \in {"401", "refused"} :
               Over(l, answer) /\ failures' = failures + 1 /\ login[l].found = "no"
    BY <1>1, <1>2, <1>3, <2>1, <2>4, OverState, EndsCounted
  <2> QED
    BY <2>2, <2>3, <2>4 DEF Settle, CountsAsFailure
<1> QED
  BY <1>1, <1>4

LEMMA EndsStep ==
  ASSUME IInv, NEW l \in Logins, CreateSession(l) \/ LoginStops(l)
  PROVE  IInv'
<1> USE DEF IInv
<1>1. AccountsInv' /\ ExistsStays
  BY AccountsSame DEF CreateSession, LoginStops
<1>2. PICK answer \in {"ok", "refused"} : Over(l, answer)
  BY DEF CreateSession, LoginStops
<1>3. UNCHANGED <<reservation, failures>> /\ login[l].pc # "over"
  BY DEF CreateSession, LoginStops
<1>4. LoginsInv'
  BY <1>1, <1>2, <1>3, EndsUncounted
<1>5. login' \in [Logins -> LoginState]
  BY <1>2, OverState
<1>6. session' \in [Logins -> Users \cup {Nobody}]
  BY LoginRow DEF CreateSession, LoginStops, TypeOK
<1>7. TypeOK'
  BY <1>5, <1>6, FaultNat DEF CreateSession, LoginStops, TypeOK
<1> QED
  BY <1>1, <1>4, <1>7

LEMMA TimeStep ==
  ASSUME IInv, \/ \E l \in Logins : EndSession(l) \/ ReservationExpires(l)
               \/ \E s \in Sources : WindowPasses(s)
  PROVE  IInv'
<1> USE DEF IInv
<1>1. AccountsInv' /\ ExistsStays
  BY AccountsSame DEF EndSession, ReservationExpires, WindowPasses
<1>2. TypeOK'
  BY DEF TypeOK, EndSession, ReservationExpires, WindowPasses
<1>3. LoginsInv'
  <2>1. CASE UNCHANGED reservation
    BY <1>1, <2>1, LoginsSame DEF EndSession, ReservationExpires, WindowPasses
  <2>2. CASE \E l \in Logins : ReservationExpires(l)
    <3>1. PICK l \in Logins : ReservationExpires(l)
      BY <2>2
    <3>2. /\ UNCHANGED <<login, failures>> /\ reservation[l] = "held"
          /\ \A k \in Logins \ {l} : reservation'[k] = reservation[k]
          /\ reservation'[l] = "expired"
      BY <3>1 DEF ReservationExpires, Held, TypeOK
    <3>3. LoginInv(l) /\ LoginInv(l)'
      BY <1>1, <3>2 DEF LoginsInv, LoginInv, ExistsStays
    <3>4. \A k \in Logins : LoginInv(k)'
      BY <1>1, <3>2, <3>3, OthersGoOn
    <3>5. AdmissionBounded'
      <4>1. \A k \in Logins : reservation'[k] = "held" =>
              reservation[k] = "held" /\ login'[k].source = login[k].source
        BY <3>2
      <4> QED
        BY <4>1, NoneAdmitted DEF LoginsInv
    <3>6. CountInv'
      BY <3>2, NoneCounted DEF LoginsInv
    <3> QED
      BY <3>4, <3>5, <3>6 DEF LoginsInv
  <2> QED
    BY <2>1, <2>2 DEF EndSession, WindowPasses
<1> QED
  BY <1>1, <1>2, <1>3

----------------------------------------------------------------------------
(* The steps that edit accounts.                                           *)

LEMMA BootstrapStep ==
  ASSUME IInv, NEW u \in Users, Bootstrap(u)
  PROVE  IInv'
<1> USE DEF IInv
<1>1. \A v \in Users : ~Exists(v)
  BY DEF Bootstrap
<1>2. /\ user' \in [Users -> Account] /\ user'[u] = Super
      /\ \A v \in Users \ {u} : user'[v] = user[v]
  BY BlankTypes DEF Bootstrap, TypeOK
<1>3. TypeOK'
  BY <1>2 DEF Bootstrap, TypeOK
<1>4. ExistsStays
  BY <1>1 DEF ExistsStays
<1>5. LoginsInv'
  BY <1>4, LoginsSame DEF Bootstrap
<1>6. ASSUME NEW v \in Users PROVE UserInv(v)'
  <2>1. UserInv(v)
    BY DEF AccountsInv
  <2> QED
    BY <1>2, <2>1 DEF UserInv, Exists, Super
<1>7. ASSUME NEW q \in Requests PROVE RequestInv(q)'
  <2>1. RequestInv(q)
    BY DEF AccountsInv
  <2>2. ~Working(q)
    BY <1>1, <2>1 DEF RequestInv
  <2>3. request'[q].pc = request[q].pc /\ applied'[q] = applied[q]
    BY DEF Bootstrap
  <2> QED
    BY <2>1, <2>2, <2>3 DEF RequestInv, Working
<1>8. SuperAdminRemains'
  BY <1>2 DEF SuperAdminRemains, ActiveSuper, Super
<1> QED
  BY <1>3, <1>5, <1>6, <1>7, <1>8 DEF AccountsInv

\* A request changes, the accounts do not.
LEMMA OnlyRequest ==
  ASSUME TypeOK, AccountsInv, LoginsInv, NEW q \in Requests, RequestInv(q)',
         request' \in [Requests -> RequestState],
         \A p \in Requests \ {q} : request'[p] = request[p],
         \A p \in Requests \ {q} : applied'[p] = applied[p],
         UNCHANGED <<user, login, reservation, failures>>
  PROVE  AccountsInv' /\ LoginsInv'
<1>1. \A p \in Requests \ {q} : RequestInv(p)'
  <2> TAKE p \in Requests \ {q}
  <2>1. RequestInv(p) /\ request'[p] = request[p] /\ applied'[p] = applied[p]
    BY DEF AccountsInv
  <2> QED
    BY <2>1 DEF RequestInv, Working, Exists
<1>2. (\A v \in Users : UserInv(v)') /\ SuperAdminRemains' /\ ExistsStays
  BY DEF AccountsInv, UserInv, SuperAdminRemains, Exists, ActiveSuper, ExistsStays
<1>3. LoginsInv'
  BY <1>2, LoginsSame
<1> QED
  BY <1>1, <1>2, <1>3 DEF AccountsInv

LEMMA PrepareStep ==
  ASSUME IInv, NEW q \in Requests, Prepare(q)
  PROVE  IInv'
<1> USE DEF IInv
<1>1. PICK l \in Logins, u \in Users,
           c \in {"create", "promote", "demote", "enable", "disable", "password"}, r \in Roles :
        /\ MayManage(l)
        /\ Exists(u) <=> c # "create"
        /\ SetRequest(q, [pc |-> "edit", session |-> l, target |-> u, change |-> c, role |-> r,
                          seen |-> user[u]])
  BY DEF Prepare
<1> DEFINE new == [pc |-> "edit", session |-> l, target |-> u, change |-> c, role |-> r,
                   seen |-> user[u]]
<1>2. /\ new \in RequestState /\ new.pc = "edit" /\ new.session = l /\ new.target = u
      /\ new.change = c /\ new.seen = user[u]
  BY UserRow DEF RequestState
<1> HIDE DEF new
<1>3. /\ request' \in [Requests -> RequestState] /\ request'[q] = new
      /\ \A p \in Requests \ {q} : request'[p] = request[p]
  BY <1>1, <1>2, NewRequest DEF new
<1>4. RequestInv(q) /\ UserInv(u)
  BY DEF AccountsInv
<1>5. applied'[q] = 0 /\ UNCHANGED user
  BY <1>4 DEF Prepare, RequestInv
<1>6. \E v \in Users : Exists(v)
  <2>1. session[l] \in Users
    BY <1>1 DEF MayManage, TypeOK
  <2> QED
    BY <1>1, <2>1 DEF MayManage, ActiveSuper, Exists
<1>7. RequestInv(q)'
  BY <1>1, <1>2, <1>3, <1>4, <1>5, <1>6 DEF RequestInv, UserInv, Exists
<1>8. AccountsInv' /\ LoginsInv'
  BY <1>3, <1>7, OnlyRequest DEF Prepare
<1>9. TypeOK'
  BY <1>3 DEF Prepare, TypeOK
<1> QED
  BY <1>8, <1>9

LEMMA SubmitStep ==
  ASSUME IInv, NEW q \in Requests, Submit(q)
  PROVE  IInv'
<1> USE DEF IInv
<1>1. RequestInv(q) /\ Working(q)
  BY DEF AccountsInv, Submit, Working
<1>2. UNCHANGED <<user, session, reservation, attempts, failures, login, applied, faults>>
  BY DEF Submit
<1>3. /\ request' \in [Requests -> RequestState]
      /\ \A p \in Requests \ {q} : request'[p] = request[p]
      /\ RequestInv(q)'
  <2>1. CASE SetRequest(q, [request[q] EXCEPT !.pc = "apply"])
    <3>1. /\ request' \in [Requests -> RequestState]
          /\ \A p \in Requests \ {q} : request'[p] = request[p]
          /\ request'[q].pc = "apply" /\ request'[q].session = request[q].session
          /\ request'[q].target = request[q].target /\ request'[q].change = request[q].change
          /\ request'[q].seen = request[q].seen
      BY <2>1, NextPhase
    <3>2. RequestInv(q)'
      BY <1>1, <1>2, <3>1 DEF RequestInv, Working, Exists
    <3> QED
      BY <3>1, <3>2
  <2>2. CASE SetRequest(q, Answered)
    <3>1. /\ request' \in [Requests -> RequestState] /\ request'[q] = Answered
          /\ \A p \in Requests \ {q} : request'[p] = request[p]
      BY <2>2, AnsweredState, NewRequest
    <3>2. RequestInv(q)'
      BY <1>1, <1>2, <3>1, AnsweredState, AtRest DEF RequestInv
    <3> QED
      BY <3>1, <3>2
  <2> QED
    BY <2>1, <2>2 DEF Submit
<1>4. AccountsInv' /\ LoginsInv'
  BY <1>2, <1>3, OnlyRequest
<1>5. TypeOK'
  BY <1>2, <1>3 DEF TypeOK
<1> QED
  BY <1>4, <1>5

\* An edit is carried out at most once, and only on what its author saw.
LEMMA PermittedFirst ==
  ASSUME IInv, NEW q \in Requests, request[q].pc = "apply", Permitted(q)
  PROVE  /\ applied[q] = 0
         /\ request[q].target \in Users
         /\ user[request[q].target].is = request[q].seen.is
         /\ request[q].change = "create" \/ Exists(request[q].target)
<1>1. RequestInv(q) /\ Working(q)
  BY DEF IInv, AccountsInv, Working
<1>2. request[q].target \in Users
  BY <1>1 DEF RequestInv
<1>3. UserInv(request[q].target)
  BY <1>2 DEF IInv, AccountsInv
<1>4. CASE request[q].change = "create"
  BY <1>1, <1>2, <1>3, <1>4 DEF Permitted, UsernameFree, RequestInv, UserInv
<1>5. CASE request[q].change # "create"
  BY <1>1, <1>2, <1>5 DEF Permitted, UnchangedSince, RequestInv
<1> QED
  BY <1>4, <1>5

\* What is carried out.
CarriesOut(q) ==
  LET u == request[q].target
  IN /\ user' = [user EXCEPT ![u] = [is |-> Edited(q), updated |-> Fresh(u)]]
     /\ session' \in [Logins -> Users \cup {Nobody}]
     /\ applied' = [applied EXCEPT ![q] = @ + 1]

LEMMA ApplyCases ==
  ASSUME TypeOK, NEW q \in Requests, Apply(q)
  PROVE  /\ request[q].pc = "apply"
         /\ UNCHANGED <<user, session, applied>> \/ (Permitted(q) /\ CarriesOut(q))
         /\ SetRequest(q, Answered) \/ SetRequest(q, [request[q] EXCEPT !.pc = "lost"])
         /\ UNCHANGED <<reservation, attempts, failures, login>> /\ faults' \in Nat
<1>1. request[q].pc = "apply" /\ UNCHANGED <<reservation, attempts, failures, login>>
  BY DEF Apply
<1>2. faults' \in Nat
  BY FaultNat DEF Apply, TypeOK
<1>3. SetRequest(q, Answered) \/ SetRequest(q, [request[q] EXCEPT !.pc = "lost"])
  BY Zenon DEF Apply
<1> DEFINE u == request[q].target
           revoke == /\ request[q].change # "create"
                     /\ \/ request[q].change = "password"
                        \/ Edited(q).role # user[u].is.role
                        \/ Edited(q).active # user[u].is.active
<1>4. \/ UNCHANGED <<user, session, applied>>
      \/ /\ Permitted(q)
         /\ user' = [user EXCEPT ![u] = [is |-> Edited(q), updated |-> Fresh(u)]]
         /\ session' = [l \in Logins |-> IF revoke /\ session[l] = u THEN Nobody ELSE session[l]]
         /\ applied' = [applied EXCEPT ![q] = @ + 1]
  BY Zenon DEF Apply
<1> HIDE DEF revoke, u
<1>5. ASSUME session' = [l \in Logins |-> IF revoke /\ session[l] = u THEN Nobody ELSE session[l]]
      PROVE  session' \in [Logins -> Users \cup {Nobody}]
  BY <1>5 DEF TypeOK
<1>6. UNCHANGED <<user, session, applied>> \/ (Permitted(q) /\ CarriesOut(q))
  BY <1>4, <1>5 DEF CarriesOut, u
<1> QED
  BY <1>1, <1>2, <1>3, <1>6

LEMMA CarriedOut ==
  ASSUME IInv, NEW q \in Requests, request[q].pc = "apply", Permitted(q), CarriesOut(q)
  PROVE  /\ Wrote(request[q].target) /\ user'[request[q].target].is = Edited(q)
         /\ applied' \in [Requests -> Nat] /\ applied'[q] = 1
         /\ \A p \in Requests \ {q} : applied'[p] = applied[p]
<1>1. PICK u \in Users : /\ request[q].target = u /\ applied[q] = 0
                         /\ request[q].change = "create" \/ Exists(u)
  BY PermittedFirst
<1>2. Edited(q) \in Content /\ Edited(q).role # "none"
  BY <1>1, EditedType DEF IInv
<1>3. Fresh(u) \in Versions
  BY FreshVersion DEF IInv
<1> DEFINE new == [is |-> Edited(q), updated |-> Fresh(u)]
<1>4. new \in Account /\ new.is = Edited(q) /\ new.updated = Fresh(u)
  BY <1>2, <1>3 DEF Account
<1>5. user' = [user EXCEPT ![u] = new]
  BY <1>1 DEF CarriesOut
<1> HIDE DEF new
<1>6. user' \in [Users -> Account] /\ user'[u] = new /\ \A v \in Users \ {u} : user'[v] = user[v]
  BY <1>4, <1>5 DEF IInv, TypeOK
<1>7. applied' \in [Requests -> Nat] /\ applied'[q] = 1
      /\ \A p \in Requests \ {q} : applied'[p] = applied[p]
  BY <1>1 DEF CarriesOut, IInv, TypeOK
<1> QED
  BY <1>1, <1>2, <1>4, <1>6, <1>7 DEF Wrote

\* The guard of the edit, or the editor's own account, keeps a super administrator.
LEMMA SuperAdminKept ==
  ASSUME IInv, NEW q \in Requests, request[q].pc = "apply", Permitted(q), CarriesOut(q)
  PROVE  SuperAdminRemains'
<1>1. PICK u \in Users : request[q].target = u
  BY PermittedFirst
<1>2. /\ user'[u].is = Edited(q) /\ \A v \in Users \ {u} : user'[v] = user[v]
  BY <1>1, CarriedOut DEF Wrote
<1>3. RequestInv(q) /\ Working(q)
  BY DEF IInv, AccountsInv, Working
<1>4. PICK v \in Users : ActiveSuper(v)
  BY <1>3 DEF RequestInv, IInv, AccountsInv, SuperAdminRemains
<1>5. CASE v # u
  BY <1>2, <1>4, <1>5 DEF SuperAdminRemains, ActiveSuper
<1>6. CASE v = u
  <2>1. Exists(u)
    BY <1>4, <1>6 DEF ActiveSuper, Exists
  <2>2. LeavesSuperAdmin(q)
    BY <1>1, <2>1 DEF Permitted, UsernameFree
  <2>3. \/ Edited(q).role = "super_admin" /\ Edited(q).active
        \/ \E w \in Users \ {u} : ActiveSuper(w)
    BY <1>1, <1>4, <1>6, <2>2 DEF LeavesSuperAdmin
  <2> QED
    BY <1>2, <2>3 DEF SuperAdminRemains, ActiveSuper
<1> QED
  BY <1>5, <1>6

LEMMA ApplyStep ==
  ASSUME IInv, NEW q \in Requests, Apply(q)
  PROVE  IInv'
<1> USE DEF IInv
<1>1. /\ request[q].pc = "apply"
      /\ UNCHANGED <<user, session, applied>> \/ (Permitted(q) /\ CarriesOut(q))
      /\ SetRequest(q, Answered) \/ SetRequest(q, [request[q] EXCEPT !.pc = "lost"])
      /\ UNCHANGED <<reservation, attempts, failures, login>> /\ faults' \in Nat
  BY ApplyCases
<1>2. RequestInv(q) /\ Working(q)
  BY <1>1 DEF AccountsInv, Working
<1>3. /\ request' \in [Requests -> RequestState]
      /\ \A p \in Requests \ {q} : request'[p] = request[p]
      /\ \/ request'[q].pc = "over"
         \/ /\ request'[q].pc = "lost" /\ request'[q].session = request[q].session
            /\ request'[q].target = request[q].target /\ request'[q].change = request[q].change
            /\ request'[q].seen = request[q].seen
  <2>1. CASE SetRequest(q, Answered)
    BY <2>1, AnsweredState, NewRequest
  <2>2. CASE SetRequest(q, [request[q] EXCEPT !.pc = "lost"])
    BY <2>2, NextPhase
  <2> QED
    BY <1>1, <2>1, <2>2
<1>4. CASE UNCHANGED <<user, session, applied>>
  <2>1. RequestInv(q)'
    BY <1>2, <1>3, <1>4 DEF RequestInv, Working, Exists
  <2>2. AccountsInv' /\ LoginsInv'
    BY <1>1, <1>3, <1>4, <2>1, OnlyRequest
  <2>3. TypeOK'
    BY <1>1, <1>3, <1>4 DEF TypeOK
  <2> QED
    BY <2>2, <2>3
<1>5. CASE Permitted(q) /\ CarriesOut(q)
  <2>1. PICK u \in Users : request[q].target = u
    BY <1>1, <1>5, PermittedFirst
  <2>2. /\ Wrote(u) /\ user'[u].is = Edited(q)
        /\ applied' \in [Requests -> Nat] /\ applied'[q] = 1
        /\ \A p \in Requests \ {q} : applied'[p] = applied[p]
    BY <1>1, <1>5, <2>1, CarriedOut
  <2>3. (\A v \in Users : UserInv(v)') /\ ExistsStays
    BY <2>2, WroteUsers
  <2>4. \A p \in Requests \ {q} : RequestInv(p)'
    BY <1>3, <2>2, WroteRequest
  <2>5. RequestInv(q)'
    <3>1. Fresh(u) # request[q].seen.updated
      BY <2>1, FreshVersion
    <3>2. Exists(u)' /\ user'[u].updated = Fresh(u)
      BY <2>2 DEF Wrote, Exists
    <3> QED
      BY <1>2, <1>3, <2>1, <2>2, <3>1, <3>2 DEF RequestInv, Working, Exists
  <2>6. SuperAdminRemains'
    BY <1>1, <1>5, SuperAdminKept
  <2>7. LoginsInv'
    BY <1>1, <2>3, LoginsSame
  <2>8. TypeOK'
    BY <1>1, <1>3, <1>5, <2>2 DEF TypeOK, Wrote, CarriesOut
  <2> QED
    BY <2>3, <2>4, <2>5, <2>6, <2>7, <2>8 DEF AccountsInv
<1> QED
  BY <1>1, <1>4, <1>5

----------------------------------------------------------------------------
(* The theorems.                                                           *)

LEMMA InitIInv == Init => IInv
<1> SUFFICES ASSUME Init
             PROVE  IInv
  OBVIOUS
<1>1. TypeOK
  BY InitTypeOK
<1>2. \A u \in Users : user[u] = Super \/ user[u] = NoAccount
  BY DEF Init
<1>3. \A u \in Users : UserInv(u)
  <2>1. Super.is.role = "super_admin" /\ Super.updated = 1 /\ NoAccount.is.role = "none"
    BY DEF Super, NoAccount
  <2> QED
    BY <1>2, <2>1 DEF UserInv, Exists
<1>4. \A q \in Requests : request[q].pc = "idle" /\ applied[q] = 0
  BY DEF Init, IdleRequest
<1>5. \A q \in Requests : RequestInv(q)
  BY <1>4 DEF RequestInv, Working
<1>6. SuperAdminRemains
  BY <1>2 DEF SuperAdminRemains, Exists, ActiveSuper, Super, NoAccount
<1>7. \A l \in Logins : /\ login[l].pc = "idle" /\ login[l].found = "unknown"
                        /\ login[l].answer = "none" /\ reservation[l] = "none"
  BY DEF Init, IdleLogin
<1>8. \A l \in Logins : LoginInv(l)
  BY <1>7 DEF LoginInv
<1>9. AdmissionBounded
  <2>1. {l \in Logins : Held(l)} = {}
    BY <1>7 DEF Held
  <2>2. \A s \in Sources : {l \in Logins : Held(l) /\ login[l].source = s} = {}
    BY <1>7 DEF Held
  <2> QED
    BY <2>1, <2>2, FS_EmptySet, AdminConstants DEF AdmissionBounded
<1>10. CountInv
  <2>1. Answered401 = {} /\ Failed = {} /\ failures = 0
    BY <1>7 DEF Answered401, Failed, Init
  <2> QED
    BY <2>1, FS_EmptySet DEF CountInv
<1> QED
  BY <1>1, <1>3, <1>5, <1>6, <1>8, <1>9, <1>10 DEF IInv, AccountsInv, LoginsInv

LEMMA NextIInv ==
  ASSUME IInv, [Next]_vars
  PROVE  IInv'
<1>1. CASE UNCHANGED vars
  BY <1>1 DEF vars, IInv, TypeOK, AccountsInv, LoginsInv, UserInv, RequestInv, Working, LoginInv,
              SuperAdminRemains, AdmissionBounded, CountInv, Answered401, Failed, Exists,
              ActiveSuper, Held
<1>2. CASE Next
  BY <1>2, ReserveStep, AuthenticateStep, TouchStep, SettleStep, EndsStep, TimeStep, BootstrapStep,
     PrepareStep, SubmitStep, ApplyStep DEF Next, LoginStep
<1> QED
  BY <1>1, <1>2

LEMMA Invariance == Spec => []IInv
BY InitIInv, NextIInv, PTL DEF Spec

\* The state keeps its types; in particular a new version can always be found.
THEOREM Typing == Spec => []TypeOK
<1>1. IInv => TypeOK
  BY DEF IInv
<1> QED
  BY <1>1, Invariance, PTL

\* From the bootstrap on an active super administrator exists, whoever edits
\* whose account at the same time.
THEOREM SuperAdminStays == Spec => []SuperAdminRemains
<1>1. IInv => SuperAdminRemains
  BY DEF IInv, AccountsInv
<1> QED
  BY <1>1, Invariance, PTL

\* An edit that is sent again after a lost answer is not repeated.
THEOREM EditedOnce == Spec => []EditAppliedOnce
<1>1. IInv => EditAppliedOnce
  <2> SUFFICES ASSUME IInv, NEW q \in Requests
               PROVE  applied[q] <= 1
    BY DEF EditAppliedOnce
  <2>1. RequestInv(q)
    BY DEF IInv, AccountsInv
  <2> QED
    BY <2>1 DEF RequestInv
<1> QED
  BY <1>1, Invariance, PTL

\* No more logins than the limits hold reservations at the same time.
THEOREM Admitted == Spec => []AdmissionBounded
<1>1. IInv => AdmissionBounded
  BY DEF IInv, LoginsInv
<1> QED
  BY <1>1, Invariance, PTL

\* Every failure reported was counted, and nothing but failed logins.
THEOREM Counted == Spec => []FailuresCounted
<1>1. IInv => FailuresCounted
  <2> SUFFICES ASSUME IInv
               PROVE  FailuresCounted
    OBVIOUS
  <2> DEFINE N == {l \in Logins : login[l].found = "no"}
  <2>1. N \in SUBSET Logins /\ Failed \in SUBSET N /\ Failed \in SUBSET Logins
    BY DEF Failed
  <2> HIDE DEF N
  <2>2. Cardinality(Failed) <= Cardinality(N)
    BY <2>1, Shrinks
  <2>3. Cardinality(Failed) \in Nat /\ Cardinality(N) \in Nat /\ failures \in Nat
    BY <2>1, LoginSets DEF IInv, TypeOK
  <2>4. Cardinality(Answered401) <= failures /\ failures <= Cardinality(Failed)
    BY DEF IInv, LoginsInv, CountInv
  <2>5. failures <= Cardinality(N)
    BY <2>2, <2>3, <2>4
  <2> QED
    BY <2>4, <2>5 DEF FailuresCounted, Answered401, N
<1> QED
  BY <1>1, Invariance, PTL

\* An edit is only carried out on the content that its author was looking at.
THEOREM EditsWhatWasSeen == Spec => NoLostEdit
<1>1. IInv /\ [Next]_vars =>
        \A q \in Requests :
          applied'[q] > applied[q] => user[request[q].target].is = request[q].seen.is
  <2> SUFFICES ASSUME IInv, [Next]_vars, NEW q \in Requests, applied'[q] > applied[q]
               PROVE  user[request[q].target].is = request[q].seen.is
    OBVIOUS
  <2>1. applied'[q] # applied[q]
    BY DEF IInv, TypeOK
  <2>2. PICK p \in Requests : Apply(p) /\ applied' # applied
    BY <2>1 DEF Next, LoginStep, Reserve, Authenticate, Touch, Settle, CreateSession, EndSession,
       ReservationExpires, LoginStops, WindowPasses, Bootstrap, Prepare, Submit, vars
  <2>3. request[p].pc = "apply" /\ Permitted(p) /\ CarriesOut(p)
    BY <2>2, ApplyCases DEF IInv
  <2>4. p = q
    BY <2>1, <2>3, CarriedOut
  <2> QED
    BY <2>3, <2>4, PermittedFirst
<1> QED
  BY <1>1, Invariance, PTL DEF Spec, NoLostEdit
=============================================================================
