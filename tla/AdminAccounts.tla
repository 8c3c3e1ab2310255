--------------------------- MODULE AdminAccounts ---------------------------
(***************************************************************************)
(* Administrator accounts, the sessions that logins create, and the        *)
(* reservations that admit a limited number of logins at a time.           *)
(*                                                                         *)
(* An account is edited optimistically: its updated_at, which the editor   *)
(* saw in a list, must still be the row's when the edit arrives, and a     *)
(* login writes updated_at too.  Each RPC is one transaction under an      *)
(* advisory lock; its answer may be lost.  A request is authorised through *)
(* the session it carries and the account as it is at that moment, not as  *)
(* it is when the edit is applied.                                         *)
(***************************************************************************)
EXTENDS Integers, FiniteSets

CONSTANTS
  Users,        \* accounts, existing or not (one username each)
  Logins,       \* POST /api/auth/session, one each
  Requests,     \* edits of accounts by administrators
  Nobody,
  Sources,      \* source addresses of logins behind a trusted proxy
  MaxActive,    \* 12 reservations at a time ..
  MaxPerSource, \* .. 4 of one source ..
  MaxAttempts,  \* .. and 30 attempts of a source in a minute
  MaxFaults     \* bound: lost answers and failed calls

ASSUME AdminConstants ==
  /\ Nobody \notin Users \cup Logins \cup Requests \cup Sources
  /\ IsFiniteSet(Logins) /\ IsFiniteSet(Requests)
  /\ MaxActive \in Nat \ {0} /\ MaxPerSource \in Nat \ {0} /\ MaxAttempts \in Nat \ {0}
  /\ MaxFaults \in Nat

VARIABLES
  user,         \* admin_users
  session,      \* admin_sessions: the account a live session belongs to
  reservation,  \* admin_login_attempt_reservations: the one of a login
  attempts,     \* admin_login_attempt_buckets of the sources
  failures,     \* admin_login_attempt_buckets of the global key
  login,
  request,
  applied,      \* how many times an edit was carried out
  faults

vars == <<user, session, reservation, attempts, failures, login, request, applied, faults>>

----------------------------------------------------------------------------
\* Operators and auditors differ in nothing an account is edited with.
Roles == {"super_admin", "operator"}

Content == [role : Roles \cup {"none"},   \* "none": no such row
            active : BOOLEAN,
            by : Requests \cup {Nobody}]  \* who wrote it last

\* updated_at is only compared for equality: a write takes a value that neither
\* the row nor anybody who has seen it still holds.
Versions == 0..(Cardinality(Requests) + 2)

Account == [is : Content, updated : Versions]

NoAccount == [is |-> [role |-> "none", active |-> FALSE, by |-> Nobody], updated |-> 0]

LoginState == [pc : {"idle", "authenticate", "touch", "settle", "create", "over"},
               user : Users \cup {Nobody},
               source : Sources \cup {Nobody},
               found : {"unknown", "yes", "no", "error"},
               answer : {"none", "ok", "401", "refused"}]   \* refused: 429 or 503

RequestState == [pc : {"idle", "edit", "apply", "lost", "over"},
                 session : Logins \cup {Nobody},
                 target : Users \cup {Nobody},
                 change : {"create", "promote", "demote", "enable", "disable", "password"},
                 role : Roles,
                 seen : Account]

IdleLogin == [pc |-> "idle", user |-> Nobody, source |-> Nobody, found |-> "unknown",
              answer |-> "none"]

IdleRequest == [pc |-> "idle", session |-> Nobody, target |-> Nobody, change |-> "create",
                role |-> "operator", seen |-> NoAccount]

Super == [is |-> [role |-> "super_admin", active |-> TRUE, by |-> Nobody], updated |-> 1]

\* A new installation, or one with some super administrators.
Init ==
  /\ \E existing \in SUBSET Users :
       user = [u \in Users |-> IF u \in existing THEN Super ELSE NoAccount]
  /\ session = [l \in Logins |-> Nobody]
  /\ reservation = [l \in Logins |-> "none"]
  /\ attempts = [s \in Sources |-> 0]
  /\ failures = 0
  /\ login = [l \in Logins |-> IdleLogin]
  /\ request = [q \in Requests |-> IdleRequest]
  /\ applied = [q \in Requests |-> 0]
  /\ faults = 0

Fault == faults < MaxFaults /\ faults' = faults + 1

Exists(u) == user[u].is.role # "none"
ActiveSuper(u) == user[u].is.role = "super_admin" /\ user[u].is.active

----------------------------------------------------------------------------
(* Logging in.                                                             *)

SetLogin(l, state) == login' = [login EXCEPT ![l] = state]

\* The response; nothing but what the client and the counters know is kept.
Over(l, answer) ==
  SetLogin(l, [IdleLogin EXCEPT !.pc = "over", !.answer = answer, !.source = login[l].source,
                                !.found = IF login[l].found = "no" THEN "no" ELSE "unknown"])

Fresh(u) ==
  CHOOSE n \in Versions :
    /\ n \notin {0, user[u].updated}
    /\ \A q \in Requests : request[q].target = u => n # request[q].seen.updated

Held(l) == reservation[l] = "held"

\* Mutant: one reservation too many.
FullInclusive(held, limit) == Cardinality(held) > limit

Full(held, limit) == Cardinality(held) >= limit

\* reserve_admin_login_attempt_v2: expired reservations are deleted first; a
\* source's attempt counts although it is refused for the source's limits.
Reserve(l) ==
  /\ login[l].pc = "idle"
  /\ \E u \in Users, s \in Sources \cup {Nobody} :
       LET kept == [k \in Logins |-> IF reservation[k] = "expired" THEN "none" ELSE reservation[k]]
           crowded == Full({k \in Logins : Held(k)}, MaxActive)
           sourceCrowded ==
             /\ s # Nobody
             /\ \/ attempts[s] >= MaxAttempts
                \/ Full({k \in Logins : Held(k) /\ login[k].source = s}, MaxPerSource)
           admitted == ~crowded /\ ~sourceCrowded
           \* the counter is compared with the limit only
           counted == IF crowded \/ s = Nobody \/ attempts[s] > MaxAttempts THEN attempts
                      ELSE [attempts EXCEPT ![s] = @ + 1]
           state == [IdleLogin EXCEPT !.user = u, !.source = s]
       IN /\ reservation' = IF admitted THEN [kept EXCEPT ![l] = "held"] ELSE kept
          /\ attempts' = counted
          /\ \/ /\ UNCHANGED faults
                /\ SetLogin(l, IF admitted THEN [state EXCEPT !.pc = "authenticate"]
                               ELSE [IdleLogin EXCEPT !.pc = "over", !.answer = "refused"])
             \/ /\ Fault      \* the answer is lost, the reservation stays
                /\ SetLogin(l, [state EXCEPT !.pc = "over", !.answer = "refused", !.user = Nobody])
  /\ UNCHANGED <<user, session, failures, request, applied>>

\* authenticateAdmin: the row is read, and the password compared with its hash
Authenticate(l) ==
  /\ login[l].pc = "authenticate"
  /\ \/ /\ user[login[l].user].is.active
        /\ SetLogin(l, [login[l] EXCEPT !.pc = "touch", !.found = "yes"])
        /\ UNCHANGED faults
     \/ /\ SetLogin(l, [login[l] EXCEPT !.pc = "settle", !.found = "no"])
        /\ UNCHANGED faults
     \/ /\ Fault
        /\ SetLogin(l, [login[l] EXCEPT !.pc = "settle", !.found = "error"])
  /\ UNCHANGED <<user, session, reservation, attempts, failures, request, applied>>

\* last_login_at and updated_at, whatever the row has become; errors are ignored
Touch(l) ==
  LET u == login[l].user
  IN /\ login[l].pc = "touch"
     /\ SetLogin(l, [login[l] EXCEPT !.pc = "settle"])
     /\ \/ user' = [user EXCEPT ![u].updated = Fresh(u)] /\ UNCHANGED faults
        \/ Fault /\ UNCHANGED user
     /\ UNCHANGED <<session, reservation, attempts, failures, request, applied>>

\* Mutant: a login that could not be checked counts as failed.
CountsAsFailureUnlessFound(l) == login[l].found # "yes"

CountsAsFailure(l) == login[l].found = "no"

\* settle_admin_login_attempt_v2 and what the handler does with its answer
Settle(l) ==
  LET known == reservation[l] # "none"
      settled == /\ reservation' = [reservation EXCEPT ![l] = "none"]
                 /\ failures' = IF known /\ CountsAsFailure(l) THEN failures + 1 ELSE failures
  IN /\ login[l].pc = "settle"
     /\ \/ /\ settled
           /\ UNCHANGED faults
           /\ IF known /\ login[l].found = "yes"
              THEN SetLogin(l, [login[l] EXCEPT !.pc = "create"])
              ELSE Over(l, IF known /\ login[l].found = "no" THEN "401" ELSE "refused")
        \/ /\ Fault
           /\ settled \/ UNCHANGED <<reservation, failures>>
           /\ Over(l, "refused")
     /\ UNCHANGED <<user, session, attempts, request, applied>>

\* createPersistentAdminSession; the audit row that follows decides nothing
CreateSession(l) ==
  LET created == [session EXCEPT ![l] = login[l].user]
  IN /\ login[l].pc = "create"
     /\ \/ session' = created /\ Over(l, "ok") /\ UNCHANGED faults
        \/ Fault /\ Over(l, "refused") /\ session' \in {session, created}
     /\ UNCHANGED <<user, reservation, attempts, failures, request, applied>>

\* DELETE /api/auth/session, or twelve hours
EndSession(l) ==
  /\ session[l] # Nobody
  /\ session' = [session EXCEPT ![l] = Nobody]
  /\ UNCHANGED <<user, reservation, attempts, failures, login, request, applied, faults>>

----------------------------------------------------------------------------
(* Time and crashes of the login.                                          *)

\* fifteen seconds, which a slow login may exceed
ReservationExpires(l) ==
  /\ Held(l)
  /\ reservation' = [reservation EXCEPT ![l] = "expired"]
  /\ UNCHANGED <<user, session, attempts, failures, login, request, applied, faults>>

WindowPasses(s) ==
  /\ attempts[s] > 0
  /\ attempts' = [attempts EXCEPT ![s] = 0]
  /\ UNCHANGED <<user, session, reservation, failures, login, request, applied, faults>>

LoginStops(l) ==
  /\ login[l].pc \notin {"idle", "over"}
  /\ Fault
  /\ Over(l, "refused")
  /\ UNCHANGED <<user, session, reservation, attempts, failures, request, applied>>

----------------------------------------------------------------------------
(* Editing accounts.                                                       *)

SetRequest(q, state) == request' = [request EXCEPT ![q] = state]
Answered == [IdleRequest EXCEPT !.pc = "over"]

\* requireAdminCapability(request, "admin:manage")
MayManage(l) == session[l] # Nobody /\ ActiveSuper(session[l])

\* Usernames are taken in some order; which request is next is immaterial.
NextRequest == CHOOSE q \in Requests : request[q].pc = "idle"

\* POST /api/auth/bootstrap
Bootstrap(u) ==
  /\ \A v \in Users : ~Exists(v)
  /\ user' = [user EXCEPT ![u] = Super]
  /\ UNCHANGED <<session, reservation, attempts, failures, login, request, applied, faults>>

\* An administrator looks at the list and decides on an edit.
Prepare(q) ==
  /\ request[q].pc = "idle" /\ q = NextRequest
  /\ \E l \in Logins, u \in Users, c \in {"create", "promote", "demote", "enable", "disable", "password"},
        r \in Roles :
       /\ MayManage(l)
       /\ Exists(u) <=> c # "create"
       /\ c = "create" \/ r = "operator"
       /\ SetRequest(q, [pc |-> "edit", session |-> l, target |-> u, change |-> c, role |-> r,
                         seen |-> user[u]])
  /\ UNCHANGED <<user, session, reservation, attempts, failures, login, applied, faults>>

\* POST or PATCH up to the RPC: authorised now, and not the own account disabled
Submit(q) ==
  LET l == request[q].session
      own == request[q].target = session[l]
      accepted == /\ MayManage(l)
                  /\ request[q].change = "create" \/ Exists(request[q].target)
                  /\ ~(own /\ request[q].change = "disable")
  IN /\ request[q].pc \in {"edit", "lost"}
     /\ SetRequest(q, IF accepted THEN [request[q] EXCEPT !.pc = "apply"] ELSE Answered)
     /\ UNCHANGED <<user, session, reservation, attempts, failures, login, applied, faults>>

\* Mutant: an edit without a role sets the role to NULL.
EditedWithoutCoalesce(q) ==
  LET old == user[request[q].target].is
  IN IF request[q].change = "create"
     THEN [role |-> request[q].role, active |-> TRUE, by |-> q]
     ELSE [old EXCEPT !.role = "null", !.by = q]

Edited(q) ==
  LET old == user[request[q].target].is
  IN CASE request[q].change = "create" -> [role |-> request[q].role, active |-> TRUE, by |-> q]
       [] request[q].change = "promote" -> [old EXCEPT !.role = "super_admin", !.by = q]
       [] request[q].change = "demote" -> [old EXCEPT !.role = "operator", !.by = q]
       [] request[q].change = "enable" -> [old EXCEPT !.active = TRUE, !.by = q]
       [] request[q].change = "disable" -> [old EXCEPT !.active = FALSE, !.by = q]
       [] request[q].change = "password" -> [old EXCEPT !.by = q]

\* Mutant: the expected version is not compared.
UnchangedSinceExists(q) == Exists(request[q].target)

UnchangedSince(q) == user[request[q].target].updated = request[q].seen.updated

\* Mutant: the guard looks at the editor's account instead of the others.
LeavesSuperAdminOwn(q) ==
  LET u == request[q].target
  IN ~ActiveSuper(u) \/ (session[request[q].session] # Nobody /\ ActiveSuper(session[request[q].session]))

LeavesSuperAdmin(q) ==
  LET u == request[q].target
      next == Edited(q)
  IN \/ ~ActiveSuper(u)
     \/ next.role = "super_admin" /\ next.active
     \/ \E v \in Users \ {u} : ActiveSuper(v)

\* Mutant: an account may be created again under its username.
UsernameFreeAlways(q) == TRUE

UsernameFree(q) == ~Exists(request[q].target)

Permitted(q) ==
  IF request[q].change = "create" THEN UsernameFree(q)
  ELSE UnchangedSince(q) /\ LeavesSuperAdmin(q)

\* create_admin_user_audited and update_admin_user_audited; a role, a state or
\* a password that is set ends the account's sessions
Apply(q) ==
  LET u == request[q].target
      old == user[u].is
      new == Edited(q)
      revoke == /\ request[q].change # "create"
                /\ \/ request[q].change = "password"
                   \/ new.role # old.role
                   \/ new.active # old.active
      carryOut == /\ user' = [user EXCEPT ![u] = [is |-> new, updated |-> Fresh(u)]]
                  /\ session' = [l \in Logins |->
                       IF revoke /\ session[l] = u THEN Nobody ELSE session[l]]
                  /\ applied' = [applied EXCEPT ![q] = @ + 1]
  IN /\ request[q].pc = "apply"
     /\ \/ /\ IF Permitted(q) THEN carryOut ELSE UNCHANGED <<user, session, applied>>
           /\ SetRequest(q, Answered)
           /\ UNCHANGED faults
        \/ /\ Fault      \* the client may send the same edit again
           /\ (Permitted(q) /\ carryOut) \/ UNCHANGED <<user, session, applied>>
           /\ SetRequest(q, [request[q] EXCEPT !.pc = "lost"])
     /\ UNCHANGED <<reservation, attempts, failures, login>>

----------------------------------------------------------------------------
LoginStep(l) ==
  \/ Reserve(l) \/ Authenticate(l) \/ Touch(l) \/ Settle(l) \/ CreateSession(l)
  \/ EndSession(l) \/ ReservationExpires(l) \/ LoginStops(l)

Next ==
  \/ \E l \in Logins : LoginStep(l)
  \/ \E s \in Sources : WindowPasses(s)
  \/ \E u \in Users : Bootstrap(u)
  \/ \E q \in Requests : Prepare(q) \/ Submit(q) \/ Apply(q)

Spec == Init /\ [][Next]_vars

----------------------------------------------------------------------------
(* Properties.                                                             *)

TypeOK ==
  /\ user \in [Users -> Account]
  /\ session \in [Logins -> Users \cup {Nobody}]
  /\ reservation \in [Logins -> {"none", "held", "expired"}]
  /\ attempts \in [Sources -> Nat]
  /\ failures \in Nat
  /\ login \in [Logins -> LoginState]
  /\ request \in [Requests -> RequestState]
  /\ applied \in [Requests -> Nat]
  /\ faults \in Nat

\* From the bootstrap on an active super administrator exists, although
\* several edit each other's accounts at the same time from what they saw.
SuperAdminRemains ==
  (\E u \in Users : Exists(u)) => \E u \in Users : ActiveSuper(u)

\* An edit whose answer was lost and that is sent again is not repeated.
EditAppliedOnce == \A q \in Requests : applied[q] <= 1

\* An edit changes the account its author was looking at: nobody else's edit in
\* between is overwritten, and logins in between do no harm.
NoLostEdit ==
  [][\A q \in Requests :
       applied'[q] > applied[q] => user[request[q].target].is = request[q].seen.is]_vars

\* However logins are interleaved, delayed and lost, no more than the limits of
\* them hold reservations at the same time.
AdmissionBounded ==
  /\ Cardinality({l \in Logins : Held(l)}) <= MaxActive
  /\ \A s \in Sources :
       Cardinality({l \in Logins : Held(l) /\ login[l].source = s}) <= MaxPerSource

\* The failures that decide which of them are audited: every one reported to a
\* client was counted, each at most once, and nothing but failed logins.
FailuresCounted ==
  /\ Cardinality({l \in Logins : login[l].answer = "401"}) <= failures
  /\ failures <= Cardinality({l \in Logins : login[l].found = "no"})
=============================================================================
