------------------------------ MODULE DeskProofs ------------------------------
(*****************************************************************************)
(* Proofs about the operators' desk: accounts and sign-in, for any number of *)
(* accounts, browsers and requests in flight; the sign-in limiter, for any   *)
(* number of keys and any settings of it; the dials of the instance with the *)
(* log of their moves, for any number of operators; and the restore of an    *)
(* archive, for any tables, administrators and rows.                         *)
(*****************************************************************************)
EXTENDS Accounts, LoginLimiter, Dials, Restore, Integers, FiniteSetTheorems,
        SequenceTheorems, WellFoundedInduction, TLAPS

\* The accept that made an account is over.
Settled(a) == \A b \in Browser : ~(req[b].op = "consume" /\ req[b].acct = a)

\* One setup at a time, and none while an account of its making stands.
SetupAlone ==
    /\ \A b, c \in Browser : req[b].op = "setup" /\ req[c].op = "setup" => b = c
    /\ \A b \in Browser : req[b].op = "setup" => \A a \in Standing : born[a] # "setup"
    /\ \A a, c \in Standing : born[a] = "setup" /\ born[c] = "setup" => a = c

\* An accept goes on to consume the invite its account was made from.
InFlightBorn ==
    \A b \in Browser : req[b].op = "consume" =>
        role[req[b].acct] # "none" /\ born[req[b].acct] = req[b].ref

\* An account whose accept is over has spent its invite, and is the only one.
InviteSpent ==
    /\ \A a \in Standing : born[a] \in Invite /\ Settled(a) => invite[born[a]][1] = "spent"
    /\ \A a, c \in Standing :
          born[a] \in Invite /\ born[a] = born[c] /\ Settled(a) /\ Settled(c) => a = c

GrantInv == SetupAlone /\ InFlightBorn /\ InviteSpent

\* No step later than the last one recorded has opened a session.
StepInv ==
    \A a \in Account, s \in 1..(MaxClock + 1) :
        taken[<<a, s>>] <= 1 /\ (step[a] < s => taken[<<a, s>>] = 0)

-----------------------------------------------------------------------------
(* Types.                                                                  *)

\* A request moves on to another one, or is over.
LEMMA RequestMoves ==
    ASSUME TypeOK, NEW b \in Browser, NEW r \in Request, req' = [req EXCEPT ![b] = r]
    PROVE  req' \in [Browser -> Request]
BY DEF TypeOK

\* An idle browser has no request.
LEMMA NoRequest == Idle \in Request
BY DEF Idle, Request

\* What a request is about, by what it is doing.
LEMMA RequestParts ==
    ASSUME TypeOK, NEW b \in Browser
    PROVE  /\ req[b].op \in {"signin", "remove", "revokeOthers", "enrol", "consume",
                             "reset", "revokeAll", "role", "link"} => req[b].acct \in Account
           /\ req[b].op \in {"accept", "consume"} => req[b].ref \in Invite
           /\ req[b].op \in {"reset", "revokeAll"} => req[b].ref \in Reset
           /\ req[b].op = "role" => req[b].ref \in Roles
           /\ req[b].op = "link" => req[b].ref \in Provider \X Sub
<1>1. req[b] \in Request BY DEF TypeOK
<1> QED BY <1>1 DEF Request

\* Every browser is signed in to an account that has a row.
LEMMA SignedInAccount ==
    ASSUME TypeOK, NEW b \in Browser
    PROVE  CurrentAccount(b) \subseteq Account
BY DEF TypeOK, SessionType, CurrentAccount, GetSession

\* Removing an account keeps the tables' types (deleteAccount).
LEMMA DeleteTypes ==
    ASSUME TypeOK, NEW a \in Account, DeleteAccount(a)
    PROVE  /\ RowType'
           /\ session' \subseteq [id : Nat, acct : Account, since : Nat]
           /\ linked' \subseteq Provider \X Sub \X Account
           /\ reset' \in [Reset -> {<<"none", NoOne>>} \cup ({"open", "spent"} \X Account)]
<1>0. RecoveryCodes \in Nat BY AccountsAssumption DEF AccountsAssumption
<1>1. RowType' BY <1>0 DEF DeleteAccount, TypeOK, RowType
<1>2. session' \subseteq [id : Nat, acct : Account, since : Nat]
  BY DEF DeleteAccount, Cascade, TypeOK, SessionType
<1>3. linked' \subseteq Provider \X Sub \X Account
  BY DEF DeleteAccount, TypeOK, SSOType
<1>4. reset' \in [Reset -> {<<"none", NoOne>>} \cup ({"open", "spent"} \X Account)]
  BY DEF DeleteAccount, TypeOK, LinkType
<1> QED BY <1>1, <1>2, <1>3, <1>4

\* Every step of a request keeps every variable's type: the team pages.
LEMMA TeamTypes ==
    ASSUME TypeOK, NEW b \in Browser, Team(b)
    PROVE  TypeOK'
<1> USE AccountsAssumption DEF AccountsAssumption
<1>1. CASE SetupSubmit(b)
  BY <1>1
      DEF SetupSubmit, Arrives, Goes, Request, TypeOK, RowType, SessionType, LinkType, SSOType,
          CountType, rowVars, sessVars, linkVars, ssoVars
<1>2. CASE SetupCreate(b)
  BY <1>2, NoRequest
      DEF SetupCreate, CreateAccountRow, Done, Roles, TypeOK, RowType, SessionType, LinkType,
          SSOType, CountType, rowVars, sessVars, linkVars, ssoVars
<1>3. CASE CreateAccount(b)
  BY <1>3
      DEF CreateAccount, Arrives, CreateAccountRow, Roles, TypeOK, RowType, SessionType, LinkType,
          SSOType, CountType, rowVars, sessVars, linkVars, ssoVars
<1>4. CASE InviteAccount(b)
  BY <1>4
      DEF InviteAccount, Arrives, CreateInvite, Roles, TypeOK, RowType, SessionType, LinkType,
          SSOType, CountType, rowVars, sessVars, linkVars, ssoVars
<1>5. ASSUME NEW i \in Invite, InviteAccept(b, i) PROVE TypeOK'
  BY <1>5
      DEF InviteAccept, Arrives, Goes, Request, TypeOK, RowType, SessionType, LinkType, SSOType,
          CountType, rowVars, sessVars, linkVars, ssoVars
<1>6. CASE AcceptCreate(b)
  <2>1. req[b].ref \in Invite BY <1>6, RequestParts DEF AcceptCreate
  <2>2. invite[req[b].ref][2] \in Roles BY <2>1 DEF TypeOK, LinkType
  <2>3. ASSUME NEW a \in Account, CreateAccountRow(a, invite[req[b].ref][2], req[b].ref)
        PROVE  RowType'
    BY <2>1, <2>2, <2>3 DEF CreateAccountRow, TypeOK, RowType
  <2>4. ASSUME NEW a \in Account, Goes(b, "consume", a, req[b].ref)
        PROVE  req' \in [Browser -> Request]
    BY <2>1, <2>4, RequestMoves DEF Goes, Request
  <2>5. Done(b) => req' \in [Browser -> Request]
    BY NoRequest, RequestMoves DEF Done
  <2>6. RowType' /\ req' \in [Browser -> Request]
    BY <1>6, <2>3, <2>4, <2>5 DEF AcceptCreate, TypeOK, RowType, rowVars
  <2> QED BY <1>6, <2>6
      DEF AcceptCreate, TypeOK, SessionType, LinkType, SSOType, CountType, sessVars, linkVars,
          ssoVars
<1>7. CASE ConsumeInvite(b)
  BY <1>7, NoRequest, RequestParts, DeleteTypes
      DEF ConsumeInvite, Done, TypeOK, RowType, SessionType, LinkType, SSOType, CountType, rowVars,
          sessVars, linkVars, ssoVars
<1>8. ASSUME NEW a \in Account, NEW r \in Roles, SetAccountRole(b, a, r) PROVE TypeOK'
  BY <1>8
      DEF SetAccountRole, Arrives, Goes, Request, TypeOK, RowType, SessionType, LinkType, SSOType,
          CountType, rowVars, sessVars, linkVars, ssoVars
<1>9. CASE UpdateAccountRole(b)
  BY <1>9, NoRequest, RequestParts
      DEF UpdateAccountRole, Done, Roles, TypeOK, RowType, SessionType, LinkType, SSOType,
          CountType, rowVars, sessVars, linkVars, ssoVars
<1>10. ASSUME NEW a \in Account, RemoveAccount(b, a) PROVE TypeOK'
  BY <1>10
      DEF RemoveAccount, Arrives, Goes, Request, TypeOK, RowType, SessionType, LinkType, SSOType,
          CountType, rowVars, sessVars, linkVars, ssoVars
<1>11. CASE RemoveDelete(b)
  BY <1>11, NoRequest, RequestParts, DeleteTypes
      DEF RemoveDelete, Done, TypeOK, RowType, SessionType, LinkType, SSOType, CountType, rowVars,
          sessVars, linkVars, ssoVars
<1> QED BY <1>1, <1>2, <1>3, <1>4, <1>5, <1>6, <1>7, <1>8, <1>9, <1>10, <1>11 DEF Team

\* Signing in and out.
LEMMA SignInTypes ==
    ASSUME TypeOK, NEW b \in Browser, SignIn(b)
    PROVE  TypeOK'
<1> USE AccountsAssumption DEF AccountsAssumption
<1>1. ASSUME NEW a \in Account, LoginSubmit(b, a) PROVE TypeOK'
  BY <1>1
      DEF LoginSubmit, Arrives, OwesCode, Goes, Request, TypeOK, RowType, SessionType, LinkType,
          SSOType, CountType, rowVars, sessVars, linkVars, ssoVars
<1>2. CASE LoginTOTP(b)
  <2> DEFINE a == pending[b]
  <2>1. a \in Account BY <1>2 DEF LoginTOTP, Standing
  <2>2. /\ step' \in [Account -> 0..(MaxClock + 1)] /\ taken' \in [Account \X (1..(MaxClock + 1)) -> Nat]
        /\ codes' \in [Account -> 0..RecoveryCodes]
    <3>1. ASSUME NEW s \in VerifyTOTPStep, step' = [step EXCEPT ![a] = s],
                 taken' = [taken EXCEPT ![<<a, s>>] = @ + 1], UNCHANGED codes
          PROVE  <2>2
      <4>1. s \in 1..(MaxClock + 1) BY DEF VerifyTOTPStep, TypeOK, CountType
      <4>2. step' \in [Account -> 0..(MaxClock + 1)] BY <2>1, <3>1, <4>1 DEF TypeOK, RowType
      <4>3. taken' \in [Account \X (1..(MaxClock + 1)) -> Nat] BY <2>1, <3>1, <4>1
          DEF TypeOK, CountType
      <4> QED BY <3>1, <4>2, <4>3 DEF TypeOK, RowType
    <3>2. CASE RedeemRecoveryCode(a) /\ UNCHANGED <<step, taken>>
      BY <2>1, <3>2 DEF RedeemRecoveryCode, TypeOK, RowType, CountType
    <3> QED BY <1>2, <3>1, <3>2 DEF LoginTOTP
  <2>3. req' \in [Browser -> Request]
    BY <1>2, <2>1, RequestMoves DEF LoginTOTP, Goes, Request
  <2>4. pending' \in [Browser -> Account \cup {NoOne}] /\ ops' \in 0..MaxOps
    BY <1>2 DEF LoginTOTP, Arrives, TypeOK, SessionType, CountType
  <2>5. UNCHANGED <<role, born, totp, resets, session, nextId, cookie, linkVars, ssoVars, clock>>
    BY <1>2 DEF LoginTOTP
  <2> QED BY <2>2, <2>3, <2>4, <2>5
      DEF TypeOK, RowType, SessionType, LinkType, SSOType, CountType, linkVars, ssoVars
<1>3. CASE CompleteLogin(b)
  BY <1>3, NoRequest, RequestParts
      DEF CompleteLogin, CreateSession, Done, TypeOK, RowType, SessionType, LinkType, SSOType,
          CountType, rowVars, sessVars, linkVars, ssoVars
<1>4. CASE Logout(b)
  BY <1>4
      DEF Logout, Arrives, RevokeSession, TypeOK, RowType, SessionType, LinkType, SSOType,
          CountType, rowVars, sessVars, linkVars, ssoVars
<1>5. CASE RevokeOneSession(b)
  BY <1>5
      DEF RevokeOneSession, Arrives, RevokeSession, TypeOK, RowType, SessionType, LinkType,
          SSOType, CountType, rowVars, sessVars, linkVars, ssoVars
<1>6. CASE SignOutOtherSessions(b)
  BY <1>6
      DEF SignOutOtherSessions, Arrives, RevokeSession, TypeOK, RowType, SessionType, LinkType,
          SSOType, CountType, rowVars, sessVars, linkVars, ssoVars
<1>7. CASE RevokeAsAdmin(b)
  BY <1>7
      DEF RevokeAsAdmin, Arrives, RevokeSession, TypeOK, RowType, SessionType, LinkType, SSOType,
          CountType, rowVars, sessVars, linkVars, ssoVars
<1> QED BY <1>1, <1>2, <1>3, <1>4, <1>5, <1>6, <1>7 DEF SignIn

\* Passwords and the second factor.
LEMMA CredentialTypes ==
    ASSUME TypeOK, NEW b \in Browser, Credentials(b)
    PROVE  TypeOK'
<1> USE AccountsAssumption DEF AccountsAssumption
<1>1. ASSUME NEW a \in Account, ForgotSubmit(b, a) PROVE TypeOK'
  BY <1>1
      DEF ForgotSubmit, Arrives, CreatePasswordReset, TypeOK, RowType, SessionType, LinkType,
          SSOType, CountType, rowVars, sessVars, linkVars, ssoVars
<1>2. ASSUME NEW x \in Reset, ResetSubmit(b, x) PROVE TypeOK'
  BY <1>2
      DEF ResetSubmit, Arrives, LookupReset, Goes, Request, TypeOK, RowType, SessionType, LinkType,
          SSOType, CountType, rowVars, sessVars, linkVars, ssoVars
<1>3. CASE ResetUpdate(b)
  <2>1. req[b].ref \in Reset /\ req[b].acct \in Account
    BY <1>3, RequestParts DEF ResetUpdate
  <2>2. [op |-> "revokeAll", acct |-> req[b].acct, ref |-> req[b].ref] \in Request
    BY <2>1 DEF Request
  <2>3. req' \in [Browser -> Request]
    BY <1>3, <2>2, NoRequest, RequestMoves DEF ResetUpdate, Goes, Done
  <2>4. resets' \in [Account -> Nat]
    BY <1>3, <2>1 DEF ResetUpdate, TypeOK, RowType
  <2> QED BY <1>3, <2>3, <2>4
      DEF ResetUpdate, TypeOK, RowType, SessionType, LinkType, SSOType, CountType, rowVars,
          sessVars, linkVars, ssoVars
<1>4. CASE ResetFinish(b)
  BY <1>4, NoRequest, RequestParts
      DEF ResetFinish, Done, TypeOK, RowType, SessionType, LinkType, SSOType, CountType, rowVars,
          sessVars, linkVars, ssoVars
<1>5. CASE ChangePassword(b)
  BY <1>5, SignedInAccount
      DEF ChangePassword, Arrives, Goes, Request, TypeOK, RowType, SessionType, LinkType, SSOType,
          CountType, rowVars, sessVars, linkVars, ssoVars
<1>6. CASE RevokeOtherSessions(b)
  BY <1>6, NoRequest
      DEF RevokeOtherSessions, Done, TypeOK, RowType, SessionType, LinkType, SSOType, CountType,
          rowVars, sessVars, linkVars, ssoVars
<1>7. CASE BeginTOTPEnroll(b)
  BY <1>7, SignedInAccount
      DEF BeginTOTPEnroll, Arrives, TypeOK, RowType, SessionType, LinkType, SSOType, CountType,
          rowVars, sessVars, linkVars, ssoVars
<1>8. CASE TotpConfirm(b)
  BY <1>8, SignedInAccount
      DEF TotpConfirm, Arrives, Goes, Request, TypeOK, RowType, SessionType, LinkType, SSOType,
          CountType, rowVars, sessVars, linkVars, ssoVars
<1>9. CASE StoreRecoveryCodes(b)
  BY <1>9, NoRequest, RequestParts
      DEF StoreRecoveryCodes, Done, TypeOK, RowType, SessionType, LinkType, SSOType, CountType,
          rowVars, sessVars, linkVars, ssoVars
<1>10. CASE ReenrollAccount(b)
  BY <1>10
      DEF ReenrollAccount, Arrives, Standing, TypeOK, RowType, SessionType, LinkType, SSOType,
          CountType, rowVars, sessVars, linkVars, ssoVars
<1> QED BY <1>1, <1>2, <1>3, <1>4, <1>5, <1>6, <1>7, <1>8, <1>9, <1>10 DEF Credentials

\* Single sign-on.
LEMMA SSOTypes ==
    ASSUME TypeOK, NEW b \in Browser, SSO(b)
    PROVE  TypeOK'
<1> USE AccountsAssumption DEF AccountsAssumption
<1>1. CASE SSOProviderSet(b)
  BY <1>1
      DEF SSOProviderSet, Arrives, CreateSSOProvider, UpdateSSOProvider, DeleteSSOProvider, TypeOK,
          RowType, SessionType, LinkType, SSOType, CountType, rowVars, sessVars, linkVars, ssoVars
<1>2. CASE SSOStart(b)
  BY <1>2
      DEF SSOStart, Arrives, TypeOK, RowType, SessionType, LinkType, SSOType, CountType, rowVars,
          sessVars, linkVars, ssoVars
<1>3. CASE SSOCallback(b)
  <2>1. ASSUME NEW a \in Account, OwesCode(b, a)
        PROVE  pending' \in [Browser -> Account \cup {NoOne}] /\ req' \in [Browser -> Request]
    <3>1. [op |-> "signin", acct |-> a, ref |-> "none"] \in Request BY DEF Request
    <3>2. req' \in [Browser -> Request]
      BY <2>1, <3>1, RequestMoves DEF OwesCode, Goes, TypeOK
    <3> QED BY <2>1, <3>2 DEF OwesCode, TypeOK, SessionType
  <2>2. pending' \in [Browser -> Account \cup {NoOne}] /\ req' \in [Browser -> Request]
    BY <1>3, <2>1 DEF SSOCallback, GetAccountBySSOIdentity, TypeOK, SessionType
  <2>3. ops' \in 0..MaxOps /\ ssoTx' \in [Browser -> {"none", "login", "link"}]
    BY <1>3 DEF SSOCallback, Arrives, TypeOK, CountType, SSOType
  <2>4. UNCHANGED <<rowVars, session, nextId, cookie, linkVars, providers, linked, taken, clock>>
    BY <1>3 DEF SSOCallback
  <2> QED BY <2>2, <2>3, <2>4
      DEF TypeOK, RowType, SessionType, LinkType, SSOType, CountType, rowVars, sessVars, linkVars,
          ssoVars
<1>4. CASE SSOLinkCallback(b)
  BY <1>4, SignedInAccount
      DEF SSOLinkCallback, Arrives, Goes, Request, TypeOK, RowType, SessionType, LinkType, SSOType,
          CountType, rowVars, sessVars, linkVars, ssoVars
<1>5. CASE InsertSSOIdentity(b)
  BY <1>5, NoRequest, RequestParts
      DEF InsertSSOIdentity, Done, TypeOK, RowType, SessionType, LinkType, SSOType, CountType,
          rowVars, sessVars, linkVars, ssoVars
<1>6. CASE SSOUnlink(b)
  BY <1>6
      DEF SSOUnlink, Arrives, TypeOK, RowType, SessionType, LinkType, SSOType, CountType, rowVars,
          sessVars, linkVars, ssoVars
<1>7. CASE RemoveSSOBinding(b)
  BY <1>7
      DEF RemoveSSOBinding, Arrives, TypeOK, RowType, SessionType, LinkType, SSOType, CountType,
          rowVars, sessVars, linkVars, ssoVars
<1> QED BY <1>1, <1>2, <1>3, <1>4, <1>5, <1>6, <1>7 DEF SSO

\* Every variable keeps its type, and a request in flight carries what its kind
\* needs and no more.
THEOREM AccountsTypeCorrect == Spec => []TypeOK
<1> USE AccountsAssumption DEF AccountsAssumption
<1>1. ASSUME Init PROVE TypeOK
  <2>1. PICK A \in SUBSET Account, on \in BOOLEAN, L \in SUBSET (Provider \X Sub \X Account) :
          StartsWith(A, on, L)
    BY <1>1 DEF Init
  <2>2. step = [a \in Account |-> 0] /\ resets = [a \in Account |-> 0]
        /\ nextId = Cardinality(Browser) + 1
    BY <1>1 DEF Init
  <2>3. RowType BY <2>1, <2>2 DEF StartsWith, RowType, Roles
  <2>4. Cardinality(Browser) \in Nat BY FS_CardinalityType
  <2>5. pending \in [Browser -> Account \cup {NoOne}] BY <2>1 DEF StartsWith
  <2>6. session \subseteq [id : Nat, acct : Account, since : Nat] /\ cookie \in [Browser -> Nat]
    <3>1. CASE A = {} BY <2>1, <3>1 DEF StartsWith
    <3>2. CASE A # {}
      <4>1. PICK own \in [Browser -> A], id \in [Browser -> 1..Cardinality(Browser)] :
               /\ session = {[id |-> id[b], acct |-> own[b], since |-> 0] : b \in Browser}
               /\ cookie = id
        BY <2>1, <3>2 DEF StartsWith
      <4> QED BY <2>4, <4>1
    <3> QED BY <3>1, <3>2
  <2>7. SessionType BY <2>2, <2>4, <2>5, <2>6 DEF SessionType
  <2>8. LinkType BY <1>1 DEF Init, LinkType, Roles
  <2>9. SSOType BY <1>1, <2>1 DEF Init, StartsWith, SSOType
  <2>10. CountType /\ req \in [Browser -> Request]
    BY <1>1, NoRequest DEF Init, CountType
  <2> QED BY <2>3, <2>7, <2>8, <2>9, <2>10 DEF TypeOK
<1>2. ASSUME TypeOK, [Next]_vars PROVE TypeOK'
  <2>1. CASE Tick BY <1>2, <2>1
      DEF Tick, TypeOK, RowType, SessionType, LinkType, SSOType, CountType, rowVars, sessVars,
          linkVars, ssoVars
  <2>2. CASE ExpireLink
    <3>1. LinkType'
      <4>1. ASSUME NEW i \in Invite, invite' = [invite EXCEPT ![i][1] = "expired"], UNCHANGED reset
            PROVE  LinkType'
        BY <1>2, <4>1 DEF TypeOK, LinkType
      <4>2. ASSUME NEW x \in Reset, reset[x][1] = "open", reset' = [reset EXCEPT ![x][1] = "spent"],
                   UNCHANGED invite
            PROVE  LinkType'
        BY <1>2, <4>2 DEF TypeOK, LinkType
      <4> QED BY <2>2, <4>1, <4>2 DEF ExpireLink
    <3> QED BY <1>2, <2>2, <3>1
        DEF ExpireLink, TypeOK, RowType, SessionType, LinkType, SSOType, CountType, rowVars,
            sessVars, linkVars, ssoVars
  <2>3. ASSUME NEW s \in session, ExpireSession(s) PROVE TypeOK'
    BY <1>2, <2>3
        DEF ExpireSession, TypeOK, RowType, SessionType, LinkType, SSOType, CountType, rowVars,
            sessVars, linkVars, ssoVars
  <2>4. ASSUME NEW b \in Browser, Team(b) \/ SignIn(b) \/ Credentials(b) \/ SSO(b) PROVE TypeOK'
    BY <1>2, <2>4, TeamTypes, SignInTypes, CredentialTypes, SSOTypes
  <2>5. CASE UNCHANGED vars BY <1>2, <2>5
      DEF vars, TypeOK, RowType, SessionType, LinkType, SSOType, CountType, rowVars, sessVars,
          linkVars, ssoVars
  <2> QED BY <1>2, <2>1, <2>2, <2>3, <2>4, <2>5 DEF Next
<1> QED BY <1>1, <1>2, PTL DEF Spec

-----------------------------------------------------------------------------
(* What the steps of a request may change.                                 *)

\* No account is made, no invite unspent, and no setup or consumption begun or
\* ended.
Quiet ==
    /\ born' = born
    /\ \A a \in Account : role[a] # "none" => role'[a] # "none"
    /\ \A a \in Account : role'[a] \in Roles => role[a] \in Roles
    /\ \A i \in Invite : invite[i][1] = "spent" => invite'[i][1] = "spent"
    /\ \A c \in Browser : req'[c] = req[c]
                          \/ (req[c].op # "consume" /\ req'[c].op \notin {"setup", "consume"})

\* No password is reset, no session older than the last reset begins, and no
\* reset stops short of ending sessions.
SessionsKept ==
    /\ resets' = resets
    /\ \A s \in session' : s \in session \/ s.since = resets[s.acct]
    /\ \A c \in Browser : req[c].op = "revokeAll" => req'[c] = req[c]

\* No account is lost, and what is written is written for an account that stands.
RowsStand ==
    /\ \A a \in Standing : a \in Standing'
    /\ \A s \in session' : s \in session \/ s.acct \in Standing
    /\ \A l \in linked' : l \in linked \/ l[3] \in Standing

StepsKept == UNCHANGED <<step, taken>>

\* What the team pages may change.
LEMMA TeamEffects ==
    ASSUME TypeOK, NEW b \in Browser, Team(b)
    PROVE  /\ SessionsKept /\ StepsKept
           /\ Quiet \/ SetupSubmit(b) \/ SetupCreate(b) \/ CreateAccount(b) \/ AcceptCreate(b)
              \/ ConsumeInvite(b)
           /\ RowsStand \/ \E a \in Account : DeleteAccount(a)
<1> USE DEF Standing, TypeOK, Quiet, SessionsKept, RowsStand, StepsKept
<1>1. ASSUME SetupSubmit(b) PROVE SessionsKept /\ StepsKept /\ RowsStand
  BY <1>1 DEF SetupSubmit, Arrives, Idle, Goes, rowVars, sessVars, linkVars, ssoVars
<1>2. ASSUME SetupCreate(b) PROVE SessionsKept /\ StepsKept /\ RowsStand
  BY <1>2
      DEF SetupCreate, CreateAccountRow, Done, Roles, RowType, rowVars, sessVars, linkVars,
          ssoVars
<1>3. ASSUME CreateAccount(b) PROVE SessionsKept /\ StepsKept /\ RowsStand
  BY <1>3
      DEF CreateAccount, Arrives, CreateAccountRow, Roles, RowType, rowVars, sessVars, linkVars,
          ssoVars
<1>4. ASSUME InviteAccount(b) PROVE SessionsKept /\ StepsKept /\ Quiet /\ RowsStand
  BY <1>4 DEF InviteAccount, Arrives, CreateInvite, LinkType, rowVars, sessVars, linkVars, ssoVars
<1>5. ASSUME NEW i \in Invite, InviteAccept(b, i) PROVE SessionsKept /\ StepsKept /\ Quiet /\ RowsStand
  BY <1>5 DEF InviteAccept, Arrives, Idle, Goes, rowVars, sessVars, linkVars, ssoVars
<1>6. ASSUME AcceptCreate(b) PROVE SessionsKept /\ StepsKept /\ RowsStand
  BY <1>6, RequestParts
      DEF AcceptCreate, CreateAccountRow, Done, Goes, Roles, RowType, LinkType, rowVars, sessVars,
          linkVars, ssoVars
<1>7. ASSUME ConsumeInvite(b) PROVE SessionsKept /\ StepsKept /\ (RowsStand \/ \E a \in Account : DeleteAccount(a))
  BY <1>7, RequestParts
      DEF ConsumeInvite, Done, DeleteAccount, Cascade, rowVars, sessVars, linkVars, ssoVars
<1>8. ASSUME NEW a \in Account, NEW r \in Roles, SetAccountRole(b, a, r)
      PROVE SessionsKept /\ StepsKept /\ Quiet /\ RowsStand
  BY <1>8 DEF SetAccountRole, Arrives, Idle, Goes, rowVars, sessVars, linkVars, ssoVars
<1>9. ASSUME UpdateAccountRole(b) PROVE SessionsKept /\ StepsKept /\ Quiet /\ RowsStand
  BY <1>9, RequestParts
      DEF UpdateAccountRole, Done, Idle, Roles, RowType, rowVars, sessVars, linkVars, ssoVars
<1>10. ASSUME NEW a \in Account, RemoveAccount(b, a) PROVE SessionsKept /\ StepsKept /\ Quiet /\ RowsStand
  BY <1>10 DEF RemoveAccount, Arrives, Idle, Goes, rowVars, sessVars, linkVars, ssoVars
<1>11. ASSUME RemoveDelete(b)
       PROVE SessionsKept /\ StepsKept /\ Quiet /\ (RowsStand \/ \E a \in Account : DeleteAccount(a))
  BY <1>11, RequestParts
      DEF RemoveDelete, Done, Idle, DeleteAccount, Cascade, RowType, Roles, rowVars, sessVars,
          linkVars, ssoVars
<1> QED BY <1>1, <1>2, <1>3, <1>4, <1>5, <1>6, <1>7, <1>8, <1>9, <1>10, <1>11 DEF Team

\* What signing in and out may change.
LEMMA SignInEffects ==
    ASSUME TypeOK, NEW b \in Browser, SignIn(b)
    PROVE  Quiet /\ SessionsKept /\ RowsStand /\ (StepsKept \/ LoginTOTP(b))
<1> USE DEF Standing, TypeOK, Quiet, SessionsKept, RowsStand, StepsKept
<1>1. ASSUME NEW a \in Account, LoginSubmit(b, a) PROVE Quiet /\ SessionsKept /\ RowsStand /\ StepsKept
  BY <1>1 DEF LoginSubmit, Arrives, Idle, OwesCode, Goes, rowVars, sessVars, linkVars, ssoVars
<1>2. ASSUME LoginTOTP(b) PROVE Quiet /\ SessionsKept /\ RowsStand
  BY <1>2 DEF LoginTOTP, Arrives, Idle, Goes, rowVars, sessVars, linkVars, ssoVars
<1>3. ASSUME CompleteLogin(b) PROVE Quiet /\ SessionsKept /\ RowsStand /\ StepsKept
  BY <1>3, RequestParts
      DEF CompleteLogin, CreateSession, Done, Idle, rowVars, sessVars, linkVars, ssoVars
<1>4. ASSUME Logout(b) PROVE Quiet /\ SessionsKept /\ RowsStand /\ StepsKept
  BY <1>4 DEF Logout, Arrives, RevokeSession, rowVars, sessVars, linkVars, ssoVars
<1>5. ASSUME RevokeOneSession(b) PROVE Quiet /\ SessionsKept /\ RowsStand /\ StepsKept
  BY <1>5 DEF RevokeOneSession, Arrives, RevokeSession, rowVars, sessVars, linkVars, ssoVars
<1>6. ASSUME SignOutOtherSessions(b) PROVE Quiet /\ SessionsKept /\ RowsStand /\ StepsKept
  BY <1>6 DEF SignOutOtherSessions, Arrives, RevokeSession, rowVars, sessVars, linkVars, ssoVars
<1>7. ASSUME RevokeAsAdmin(b) PROVE Quiet /\ SessionsKept /\ RowsStand /\ StepsKept
  BY <1>7 DEF RevokeAsAdmin, Arrives, RevokeSession, rowVars, sessVars, linkVars, ssoVars
<1> QED BY <1>1, <1>2, <1>3, <1>4, <1>5, <1>6, <1>7 DEF SignIn

\* What the password and second factor pages may change.
LEMMA CredentialEffects ==
    ASSUME TypeOK, NEW b \in Browser, Credentials(b)
    PROVE  Quiet /\ RowsStand /\ StepsKept /\ (SessionsKept \/ ResetUpdate(b) \/ ResetFinish(b))
<1> USE DEF Standing, TypeOK, Quiet, SessionsKept, RowsStand, StepsKept
<1>1. ASSUME NEW a \in Account, ForgotSubmit(b, a) PROVE Quiet /\ RowsStand /\ StepsKept /\ SessionsKept
  BY <1>1 DEF ForgotSubmit, Arrives, CreatePasswordReset, rowVars, sessVars, linkVars, ssoVars
<1>2. ASSUME NEW x \in Reset, ResetSubmit(b, x) PROVE Quiet /\ RowsStand /\ StepsKept /\ SessionsKept
  BY <1>2 DEF ResetSubmit, Arrives, Idle, Goes, rowVars, sessVars, linkVars, ssoVars
<1>3. ASSUME ResetUpdate(b) PROVE Quiet /\ RowsStand /\ StepsKept
  BY <1>3 DEF ResetUpdate, Done, Idle, Goes, rowVars, sessVars, linkVars, ssoVars
<1>4. ASSUME ResetFinish(b) PROVE Quiet /\ RowsStand /\ StepsKept
  BY <1>4 DEF ResetFinish, Done, Idle, rowVars, sessVars, linkVars, ssoVars
<1>5. ASSUME ChangePassword(b) PROVE Quiet /\ RowsStand /\ StepsKept /\ SessionsKept
  BY <1>5 DEF ChangePassword, Arrives, Idle, Goes, rowVars, sessVars, linkVars, ssoVars
<1>6. ASSUME RevokeOtherSessions(b) PROVE Quiet /\ RowsStand /\ StepsKept /\ SessionsKept
  BY <1>6 DEF RevokeOtherSessions, Done, Idle, rowVars, sessVars, linkVars, ssoVars
<1>7. ASSUME BeginTOTPEnroll(b) PROVE Quiet /\ RowsStand /\ StepsKept /\ SessionsKept
  BY <1>7 DEF BeginTOTPEnroll, Arrives, rowVars, sessVars, linkVars, ssoVars
<1>8. ASSUME TotpConfirm(b) PROVE Quiet /\ RowsStand /\ StepsKept /\ SessionsKept
  BY <1>8 DEF TotpConfirm, Arrives, Idle, Goes, rowVars, sessVars, linkVars, ssoVars
<1>9. ASSUME StoreRecoveryCodes(b) PROVE Quiet /\ RowsStand /\ StepsKept /\ SessionsKept
  BY <1>9 DEF StoreRecoveryCodes, Done, Idle, rowVars, sessVars, linkVars, ssoVars
<1>10. ASSUME ReenrollAccount(b) PROVE Quiet /\ RowsStand /\ StepsKept /\ SessionsKept
  BY <1>10 DEF ReenrollAccount, Arrives, rowVars, sessVars, linkVars, ssoVars
<1> QED BY <1>1, <1>2, <1>3, <1>4, <1>5, <1>6, <1>7, <1>8, <1>9, <1>10 DEF Credentials

\* What single sign-on may change.
LEMMA SSOEffects ==
    ASSUME TypeOK, NEW b \in Browser, SSO(b)
    PROVE  Quiet /\ SessionsKept /\ RowsStand /\ StepsKept
<1> USE DEF Standing, TypeOK, Quiet, SessionsKept, RowsStand, StepsKept
<1>1. ASSUME SSOProviderSet(b) PROVE Quiet /\ SessionsKept /\ RowsStand /\ StepsKept
  BY <1>1
      DEF SSOProviderSet, Arrives, CreateSSOProvider, UpdateSSOProvider, DeleteSSOProvider,
          rowVars, sessVars, linkVars, ssoVars
<1>2. ASSUME SSOStart(b) PROVE Quiet /\ SessionsKept /\ RowsStand /\ StepsKept
  BY <1>2 DEF SSOStart, Arrives, rowVars, sessVars, linkVars, ssoVars
<1>3. ASSUME SSOCallback(b) PROVE Quiet /\ SessionsKept /\ RowsStand /\ StepsKept
  <2>1. ASSUME NEW a \in Account, OwesCode(b, a), req[b] = Idle
        PROVE  \A c \in Browser : req'[c] = req[c] \/ (req[c].op = "idle" /\ req'[c].op = "signin")
    BY <2>1 DEF OwesCode, Goes, Idle
  <2>2. \A c \in Browser : req'[c] = req[c] \/ (req[c].op = "idle" /\ req'[c].op = "signin")
    BY <1>3, <2>1 DEF SSOCallback, Arrives, GetAccountBySSOIdentity
  <2>3. UNCHANGED <<role, born, step, resets, session, invite, linked, taken>>
    BY <1>3 DEF SSOCallback, rowVars, linkVars
  <2> QED BY <2>2, <2>3
<1>4. ASSUME SSOLinkCallback(b) PROVE Quiet /\ SessionsKept /\ RowsStand /\ StepsKept
  BY <1>4 DEF SSOLinkCallback, Arrives, Idle, Goes, rowVars, sessVars, linkVars, ssoVars
<1>5. ASSUME InsertSSOIdentity(b) PROVE Quiet /\ SessionsKept /\ RowsStand /\ StepsKept
  BY <1>5 DEF InsertSSOIdentity, Done, Idle, rowVars, sessVars, linkVars, ssoVars
<1>6. ASSUME SSOUnlink(b) PROVE Quiet /\ SessionsKept /\ RowsStand /\ StepsKept
  BY <1>6 DEF SSOUnlink, Arrives, rowVars, sessVars, linkVars, ssoVars
<1>7. ASSUME RemoveSSOBinding(b) PROVE Quiet /\ SessionsKept /\ RowsStand /\ StepsKept
  BY <1>7 DEF RemoveSSOBinding, Arrives, rowVars, sessVars, linkVars, ssoVars
<1> QED BY <1>1, <1>2, <1>3, <1>4, <1>5, <1>6, <1>7 DEF SSO

\* What a step of the whole may change.
AccountStep ==
    /\ SessionsKept \/ \E b \in Browser : ResetUpdate(b) \/ ResetFinish(b)
    /\ StepsKept \/ \E b \in Browser : LoginTOTP(b)
    /\ RowsStand \/ \E a \in Account : DeleteAccount(a)
    /\ Quiet \/ \E b \in Browser : SetupSubmit(b) \/ SetupCreate(b) \/ CreateAccount(b)
                                   \/ AcceptCreate(b) \/ ConsumeInvite(b)

\* The requests together, and the moments a session or a link expires.
LEMMA EveryAccountStep ==
    ASSUME TypeOK, [Next]_vars
    PROVE  AccountStep
<1>1. CASE Tick
  BY <1>1 DEF Tick, rowVars, sessVars, linkVars, ssoVars,
              Standing, Quiet, SessionsKept, RowsStand, StepsKept, AccountStep
<1>2. CASE ExpireLink
  <2>1. UNCHANGED <<rowVars, sessVars, ssoVars, req, taken>> BY <1>2 DEF ExpireLink
  <2>2. \A i \in Invite : invite[i][1] = "spent" => invite'[i][1] = "spent"
    BY <1>2 DEF ExpireLink, TypeOK, LinkType
  <2> QED BY <2>1, <2>2 DEF rowVars, sessVars, ssoVars,
                            Standing, Quiet, SessionsKept, RowsStand, StepsKept, AccountStep
<1>3. ASSUME NEW s \in session, ExpireSession(s) PROVE AccountStep
  BY <1>3 DEF ExpireSession, rowVars, linkVars, ssoVars,
              Standing, Quiet, SessionsKept, RowsStand, StepsKept, AccountStep
<1>4. CASE UNCHANGED vars
  BY <1>4 DEF vars, rowVars, sessVars, linkVars, ssoVars,
              Standing, Quiet, SessionsKept, RowsStand, StepsKept, AccountStep
<1>5. ASSUME NEW b \in Browser, Team(b) \/ SignIn(b) \/ Credentials(b) \/ SSO(b)
      PROVE  AccountStep
  BY <1>5, TeamEffects, SignInEffects, CredentialEffects, SSOEffects DEF AccountStep
<1> QED BY <1>1, <1>2, <1>3, <1>4, <1>5 DEF Next

-----------------------------------------------------------------------------
(* Sessions, steps and grants.                                             *)

\* Once a password reset is over no session older than it is left (ResetSignsOut),
\* however it overlaps sign-ins, other resets and the account's removal.
THEOREM ResetSignsOutCorrect == Spec => []ResetSignsOut
<1>1. ASSUME Init PROVE ResetSignsOut
  <2>1. PICK A \in SUBSET Account, on \in BOOLEAN, L \in SUBSET (Provider \X Sub \X Account) :
          StartsWith(A, on, L)
    BY <1>1 DEF Init
  <2>2. \A s \in session : s.since = 0 /\ s.acct \in Account
    BY <2>1 DEF StartsWith
  <2> QED BY <1>1, <2>2 DEF Init, ResetSignsOut
<1>2. ASSUME TypeOK, TypeOK', ResetSignsOut, [Next]_vars PROVE ResetSignsOut'
  <2>1. CASE SessionsKept
    BY <1>2, <2>1 DEF SessionsKept, ResetSignsOut, TypeOK, RowType, SessionType
  <2>2. ASSUME NEW b \in Browser, ResetUpdate(b) PROVE ResetSignsOut'
    <3>1. session' = session /\ \A c \in Browser : c # b => req'[c] = req[c]
      BY <1>2, <2>2 DEF ResetUpdate, Goes, Done, sessVars, TypeOK
    <3>2. CASE req[b].acct \notin Standing
      <4>1. resets' = resets BY <2>2, <3>2 DEF ResetUpdate
      <4>2. req[b].op # "revokeAll" BY <2>2 DEF ResetUpdate
      <4> QED BY <1>2, <3>1, <4>1, <4>2 DEF ResetSignsOut
    <3>3. CASE req[b].acct \in Standing
      <4>1. resets' = [resets EXCEPT ![req[b].acct] = @ + 1]
            /\ req'[b].op = "revokeAll" /\ req'[b].acct = req[b].acct
        BY <1>2, <2>2, <3>3 DEF ResetUpdate, Goes, TypeOK
      <4>2. req[b].op # "revokeAll" BY <2>2 DEF ResetUpdate
      <4>3. \A s \in session : s.acct # req[b].acct => resets'[s.acct] = resets[s.acct]
        BY <1>2, <4>1 DEF TypeOK, RowType, SessionType
      <4> QED BY <1>2, <3>1, <4>1, <4>2, <4>3 DEF ResetSignsOut
    <3> QED BY <3>2, <3>3
  <2>3. ASSUME NEW b \in Browser, ResetFinish(b) PROVE ResetSignsOut'
    <3>1. /\ resets' = resets /\ \A c \in Browser : c # b => req'[c] = req[c]
          /\ \A s \in session' : s \in session /\ s.acct # req[b].acct
      BY <1>2, <2>3 DEF ResetFinish, RevokedByReset, Done, rowVars, TypeOK
    <3> QED BY <1>2, <3>1 DEF ResetSignsOut
  <2> QED BY <1>2, <2>1, <2>2, <2>3, EveryAccountStep DEF AccountStep
<1> QED BY <1>1, <1>2, AccountsTypeCorrect, PTL DEF Spec

\* No session and no binding outlives its account (NoRowOutlives), also where the
\* removal overlaps the sign-in or the link that writes it.
THEOREM NoRowOutlivesCorrect == Spec => []NoRowOutlives
<1>1. ASSUME Init PROVE NoRowOutlives
  <2>1. PICK A \in SUBSET Account, on \in BOOLEAN, L \in SUBSET (Provider \X Sub \X Account) :
          StartsWith(A, on, L)
    BY <1>1 DEF Init
  <2>2. A \subseteq Standing BY <2>1 DEF StartsWith, Standing, Roles
  <2>3. \A s \in session : s.acct \in A BY <2>1 DEF StartsWith
  <2>4. \A l \in linked : l[3] \in A BY <2>1 DEF StartsWith
  <2> QED BY <2>2, <2>3, <2>4 DEF NoRowOutlives
<1>2. ASSUME TypeOK, NoRowOutlives, [Next]_vars PROVE NoRowOutlives'
  <2>1. CASE RowsStand
    BY <1>2, <2>1 DEF RowsStand, NoRowOutlives
  <2>2. ASSUME NEW a \in Account, DeleteAccount(a) PROVE NoRowOutlives'
    <3>1. \A x \in Standing : x # a => x \in Standing'
      BY <1>2, <2>2 DEF DeleteAccount, Standing, TypeOK, RowType
    <3>2. /\ \A s \in session' : s \in session /\ s.acct # a
          /\ \A l \in linked' : l \in linked /\ l[3] # a
      BY <2>2 DEF DeleteAccount, Cascade
    <3> QED BY <1>2, <3>1, <3>2 DEF NoRowOutlives
  <2> QED BY <1>2, <2>1, <2>2, EveryAccountStep DEF AccountStep
<1> QED BY <1>1, <1>2, AccountsTypeCorrect, PTL DEF Spec

\* A TOTP step later than the last one recorded has opened no session, and none
\* has opened two (updateTOTPLastStep).
LEMMA StepsCorrect == Spec => []StepInv
<1>1. Init => StepInv
  BY AccountsAssumption DEF AccountsAssumption, Init, StepInv
<1>2. ASSUME TypeOK, StepInv, [Next]_vars PROVE StepInv'
  <2>1. CASE StepsKept BY <1>2, <2>1 DEF StepsKept, StepInv
  <2>2. ASSUME NEW b \in Browser, LoginTOTP(b) PROVE StepInv'
    <3> DEFINE a == pending[b]
    <3>1. a \in Account BY <2>2 DEF LoginTOTP, Standing
    <3>2. CASE UNCHANGED <<step, taken>> BY <1>2, <3>2 DEF StepInv
    <3>3. ASSUME NEW s \in VerifyTOTPStep, FreshStep(a, s), step' = [step EXCEPT ![a] = s],
                 taken' = [taken EXCEPT ![<<a, s>>] = @ + 1]
          PROVE  StepInv'
      <4>1. s \in 1..(MaxClock + 1)
        BY <1>2, AccountsAssumption DEF AccountsAssumption, VerifyTOTPStep, TypeOK, CountType
      <4>2. step[a] \in Nat /\ step[a] < s
        BY <1>2, <3>1, <3>3, AccountsAssumption DEF AccountsAssumption, FreshStep, TypeOK, RowType
      <4> SUFFICES ASSUME NEW x \in Account, NEW t \in 1..(MaxClock + 1)
                   PROVE  taken'[<<x, t>>] <= 1 /\ (step'[x] < t => taken'[<<x, t>>] = 0)
        BY DEF StepInv
      <4>3. CASE x # a
        <5>1. <<x, t>> # <<a, s>> BY <4>3
        <5>2. taken'[<<x, t>>] = taken[<<x, t>>] /\ step'[x] = step[x]
          BY <1>2, <3>3, <4>3, <5>1 DEF TypeOK, RowType, CountType
        <5> QED BY <1>2, <5>2 DEF StepInv
      <4>4. CASE x = a /\ t # s
        <5>1. <<x, t>> # <<a, s>> BY <4>4
        <5>2. taken'[<<x, t>>] = taken[<<x, t>>] /\ step'[x] = s
          BY <1>2, <3>1, <3>3, <4>4, <5>1 DEF TypeOK, RowType, CountType
        <5>3. s < t => step[a] < t BY <4>1, <4>2
        <5> QED BY <1>2, <3>1, <4>4, <5>2, <5>3 DEF StepInv
      <4>5. CASE x = a /\ t = s
        <5>1. taken[<<a, s>>] = 0 BY <1>2, <3>1, <4>1, <4>2 DEF StepInv
        <5>2. taken'[<<x, t>>] = 1 /\ step'[x] = s
          BY <1>2, <3>1, <3>3, <4>1, <4>5, <5>1 DEF TypeOK, RowType, CountType
        <5> QED BY <4>1, <4>5, <5>2
      <4> QED BY <4>3, <4>4, <4>5
    <3> QED BY <2>2, <3>2, <3>3 DEF LoginTOTP
  <2> QED BY <1>2, <2>1, <2>2, EveryAccountStep DEF AccountStep
<1> QED BY <1>1, <1>2, AccountsTypeCorrect, PTL DEF Spec

\* The setup and the invites, between their statements: what each has made, and
\* what is left of it (createFirstAdmin under setupMu, acceptInvite).
LEMMA GrantsCorrect == Spec => []GrantInv
<1>0. Invite \cap {"none", "setup", "admin"} = {}
  BY AccountsAssumption DEF AccountsAssumption
<1>1. ASSUME Init PROVE GrantInv
  <2>1. PICK A \in SUBSET Account, on \in BOOLEAN, L \in SUBSET (Provider \X Sub \X Account) :
          StartsWith(A, on, L)
    BY <1>1 DEF Init
  <2>2. \A a \in Account : born[a] \in {"none", "admin"} BY <2>1 DEF StartsWith
  <2>3. \A b \in Browser : req[b].op = "idle" BY <1>1 DEF Init, Idle
  <2> QED BY <1>0, <2>2, <2>3 DEF GrantInv, SetupAlone, InFlightBorn, InviteSpent, Standing
<1>2. ASSUME TypeOK, TypeOK', GrantInv, [Next]_vars PROVE GrantInv'
  <2> USE <1>2
  <2>1. CASE Quiet
    <3>1. \A a \in Account : Settled(a)' => Settled(a)
      BY <2>1 DEF Quiet, Settled
    <3>2. Standing' \subseteq Standing BY <2>1 DEF Quiet, Standing
    <3>3. SetupAlone' BY <2>1, <3>2 DEF Quiet, GrantInv, SetupAlone
    <3>4. InFlightBorn'
      <4>1. ASSUME NEW b \in Browser, req'[b].op = "consume"
            PROVE  role'[req'[b].acct] # "none" /\ born'[req'[b].acct] = req'[b].ref
        <5>1. req'[b] = req[b] BY <2>1, <4>1 DEF Quiet
        <5>2. req[b].acct \in Account BY <4>1, <5>1, RequestParts
        <5> QED BY <2>1, <4>1, <5>1, <5>2 DEF Quiet, GrantInv, InFlightBorn
      <4> QED BY <4>1 DEF InFlightBorn
    <3>5. InviteSpent'
      BY <2>1, <3>1, <3>2 DEF Quiet, GrantInv, InviteSpent, Standing
    <3> QED BY <3>3, <3>4, <3>5 DEF GrantInv
  <2>2. ASSUME NEW b \in Browser, SetupSubmit(b) PROVE GrantInv'
    <3>1. /\ UNCHANGED <<role, born, invite>> /\ Standing = {} /\ req[b] = Idle
          /\ req'[b].op = "setup" /\ \A c \in Browser : c # b => req'[c] = req[c] /\ req[c].op # "setup"
      BY <2>2 DEF SetupSubmit, Arrives, Goes, SetupFree, rowVars, linkVars, TypeOK
    <3>2. Standing' = {} BY <3>1 DEF Standing
    <3> QED BY <3>1, <3>2 DEF GrantInv, SetupAlone, InFlightBorn, InviteSpent
  \* What is left of the proof for a step that makes an account.
  <2>3. ASSUME NEW a \in Account, NEW r \in Roles, NEW way, CreateAccountRow(a, r, way)
        PROVE  /\ role[a] = "none" /\ Standing' = Standing \cup {a} /\ a \notin Standing
               /\ born'[a] = way /\ \A c \in Account : c # a => born'[c] = born[c] /\ role'[c] = role[c]
               /\ \A c \in Browser : req[c].op = "consume" => req[c].acct # a
    <3>1. role[a] = "none" /\ a \notin Standing BY <2>3 DEF CreateAccountRow, Standing, Roles
    <3>2. Standing' = Standing \cup {a}
      BY <2>3 DEF CreateAccountRow, Standing, TypeOK, RowType
    <3>3. born'[a] = way /\ \A c \in Account : c # a => born'[c] = born[c] /\ role'[c] = role[c]
      BY <2>3 DEF CreateAccountRow, TypeOK, RowType
    <3>4. \A c \in Browser : req[c].op = "consume" => req[c].acct # a
      BY <3>1 DEF GrantInv, InFlightBorn
    <3> QED BY <3>1, <3>2, <3>3, <3>4
  <2>4. ASSUME NEW b \in Browser, SetupCreate(b) PROVE GrantInv'
    <3>1. PICK a \in Account : CreateAccountRow(a, "admin", "setup") BY <2>4 DEF SetupCreate
    <3>2. /\ role[a] = "none" /\ Standing' = Standing \cup {a} /\ a \notin Standing
          /\ born'[a] = "setup" /\ \A c \in Account : c # a => born'[c] = born[c] /\ role'[c] = role[c]
          /\ \A c \in Browser : req[c].op = "consume" => req[c].acct # a
      BY <2>3, <3>1 DEF Roles
    <3>3. /\ req[b].op = "setup" /\ req'[b] = Idle /\ invite' = invite
          /\ \A c \in Browser : c # b => req'[c] = req[c]
      BY <2>4 DEF SetupCreate, Done, linkVars, TypeOK
    <3>4. \A c \in Browser : req'[c].op # "setup"
      BY <3>3 DEF GrantInv, SetupAlone, Idle
    <3>5. SetupAlone'
      BY <3>2, <3>3, <3>4 DEF GrantInv, SetupAlone, Standing
    <3>6. \A x \in Account : Settled(x)' <=> Settled(x)
      BY <3>3 DEF Settled, Idle
    <3>7. \A c \in Browser : req'[c].op = "consume" => req'[c] = req[c] /\ req[c].acct \in Account
      BY <3>3, RequestParts DEF Idle
    <3>8. InFlightBorn' BY <3>2, <3>7 DEF GrantInv, InFlightBorn
    <3>9. InviteSpent' BY <1>0, <3>2, <3>3, <3>6 DEF GrantInv, InviteSpent, Standing
    <3> QED BY <3>5, <3>8, <3>9 DEF GrantInv
  <2>5. ASSUME NEW b \in Browser, CreateAccount(b) PROVE GrantInv'
    <3>1. PICK a \in Account, r \in Roles : CreateAccountRow(a, r, "admin") BY <2>5
        DEF CreateAccount
    <3>2. /\ role[a] = "none" /\ Standing' = Standing \cup {a} /\ a \notin Standing
          /\ born'[a] = "admin" /\ \A c \in Account : c # a => born'[c] = born[c] /\ role'[c] = role[c]
          /\ \A c \in Browser : req[c].op = "consume" => req[c].acct # a
      BY <2>3, <3>1
    <3>3. req' = req /\ invite' = invite BY <2>5 DEF CreateAccount, linkVars
    <3>4. SetupAlone' BY <3>2, <3>3 DEF GrantInv, SetupAlone, Standing
    <3>5. \A x \in Account : Settled(x)' <=> Settled(x) BY <3>3 DEF Settled
    <3>6. \A c \in Browser : req[c].op = "consume" => req[c].acct \in Account BY RequestParts
    <3>7. InFlightBorn' BY <3>2, <3>3, <3>6 DEF GrantInv, InFlightBorn
    <3>8. InviteSpent' BY <1>0, <3>2, <3>3, <3>5 DEF GrantInv, InviteSpent, Standing
    <3> QED BY <3>4, <3>7, <3>8 DEF GrantInv
  <2>6. ASSUME NEW b \in Browser, AcceptCreate(b) PROVE GrantInv'
    <3> DEFINE i == req[b].ref
    <3>1. i \in Invite /\ invite[i][2] \in Roles
      <4>1. i \in Invite BY <2>6, RequestParts DEF AcceptCreate
      <4> QED BY <4>1 DEF TypeOK, LinkType
    <3>2. req[b].op = "accept" /\ invite' = invite BY <2>6 DEF AcceptCreate, linkVars
    <3>3. CASE Done(b) /\ UNCHANGED rowVars
      <4>1. req'[b] = Idle /\ (\A c \in Browser : c # b => req'[c] = req[c]) /\ role' = role /\ born' = born
        BY <3>3 DEF Done, rowVars, TypeOK
      <4>2. Quiet BY <3>2, <4>1 DEF Quiet, Idle
      <4> QED BY <2>1, <4>2
    <3>4. ASSUME NEW a \in Account, CreateAccountRow(a, invite[i][2], i), Goes(b, "consume", a, i)
          PROVE  GrantInv'
      <4>1. /\ role[a] = "none" /\ Standing' = Standing \cup {a} /\ a \notin Standing
            /\ born'[a] = i /\ \A c \in Account : c # a => born'[c] = born[c] /\ role'[c] = role[c]
            /\ \A c \in Browser : req[c].op = "consume" => req[c].acct # a
        BY <2>3, <3>1, <3>4
      <4>2. /\ req'[b] = [op |-> "consume", acct |-> a, ref |-> i]
            /\ \A c \in Browser : c # b => req'[c] = req[c]
        BY <3>4 DEF Goes, TypeOK
      <4>3. \A c \in Browser : req'[c].op = "setup" => req[c].op = "setup" BY <4>2
      <4>4. SetupAlone' BY <1>0, <3>1, <4>1, <4>3 DEF GrantInv, SetupAlone, Standing
      <4>5. ~Settled(a)' /\ \A x \in Account : Settled(x)' => Settled(x)
        BY <3>2, <4>2 DEF Settled
      <4>6. \A c \in Browser : c # b /\ req[c].op = "consume" => req[c].acct \in Account BY RequestParts
      <4>7. role'[a] # "none" BY <4>1 DEF Standing, Roles
      <4>8. InFlightBorn' BY <4>1, <4>2, <4>6, <4>7 DEF GrantInv, InFlightBorn
      <4>9. \A x \in Standing' : Settled(x)' => x \in Standing /\ Settled(x) /\ born'[x] = born[x]
        BY <4>1, <4>5 DEF Standing
      <4>10. InviteSpent' BY <3>2, <4>9 DEF GrantInv, InviteSpent
      <4> QED BY <4>4, <4>8, <4>10 DEF GrantInv
    <3> QED BY <2>6, <3>3, <3>4 DEF AcceptCreate
  <2>7. ASSUME NEW b \in Browser, ConsumeInvite(b) PROVE GrantInv'
    <3> DEFINE i == req[b].ref
               a == req[b].acct
    <3>1. i \in Invite /\ a \in Account /\ req[b].op = "consume"
      BY <2>7, RequestParts DEF ConsumeInvite
    <3>2. born[a] = i /\ role[a] # "none" BY <3>1 DEF GrantInv, InFlightBorn
    <3>3. req'[b] = Idle /\ \A c \in Browser : c # b => req'[c] = req[c]
      BY <2>7 DEF ConsumeInvite, Done, TypeOK
    <3>4. \A x \in Account : x # a /\ Settled(x)' => Settled(x)
      BY <3>3 DEF Settled
    <3>5. \A c \in Browser : /\ req'[c].op = "setup" => req[c].op = "setup"
                             /\ req'[c].op = "consume" => req'[c] = req[c] /\ req[c].acct \in Account
      BY <3>3, RequestParts DEF Idle
    <3>6. CASE Consumes(i) /\ invite' = [invite EXCEPT ![i][1] = "spent"] /\ UNCHANGED rowVars
      <4>1. Standing' = Standing /\ born' = born /\ role' = role BY <3>6 DEF rowVars, Standing
      <4>2. invite'[i][1] = "spent" /\ \A j \in Invite : j # i => invite'[j] = invite[j]
        BY <3>1, <3>6 DEF TypeOK, LinkType
      <4>3. \A x \in Standing : born[x] = i => ~Settled(x)
        BY <3>1, <3>6 DEF Consumes, GrantInv, InviteSpent
      <4>4. SetupAlone' BY <3>5, <4>1 DEF GrantInv, SetupAlone
      <4>5. InFlightBorn' BY <3>5, <4>1 DEF GrantInv, InFlightBorn
      <4>6. \A x \in Standing : x # a /\ Settled(x)' => Settled(x) BY <3>4 DEF Standing
      <4>7. InviteSpent'
        BY <3>2, <4>1, <4>2, <4>3, <4>6 DEF GrantInv, InviteSpent
      <4> QED BY <4>4, <4>5, <4>7 DEF GrantInv
    <3>7. CASE DeleteAccount(a) /\ UNCHANGED invite
      <4>1. /\ Standing' = Standing \ {a} /\ born' = born
            /\ \A x \in Account : role[x] # "none" => role'[x] # "none"
        BY <3>1, <3>7 DEF DeleteAccount, Standing, TypeOK, RowType, Roles
      <4>2. SetupAlone' BY <3>5, <4>1 DEF GrantInv, SetupAlone
      <4>3. InFlightBorn' BY <3>5, <4>1 DEF GrantInv, InFlightBorn
      <4>4. \A x \in Standing' : x \in Standing /\ (Settled(x)' => Settled(x))
        BY <3>4, <4>1 DEF Standing
      <4>5. InviteSpent' BY <3>7, <4>1, <4>4 DEF GrantInv, InviteSpent
      <4> QED BY <4>2, <4>3, <4>5 DEF GrantInv
    <3> QED BY <2>7, <3>6, <3>7 DEF ConsumeInvite
  <2> QED BY <2>1, <2>2, <2>4, <2>5, <2>6, <2>7, EveryAccountStep DEF AccountStep
<1> QED BY <1>1, <1>2, AccountsTypeCorrect, PTL DEF Spec

\* A set any two members of which are one has at most one.
LEMMA AtMostOne ==
    ASSUME NEW S, \A x, y \in S : x = y
    PROVE  Cardinality(S) <= 1
<1>1. CASE S = {} BY <1>1, FS_EmptySet
<1>2. CASE S # {}
  <2>1. PICK x : S = {x} BY <1>2
  <2> QED BY <2>1, FS_Singleton
<1> QED BY <1>1, <1>2

\* What admits once admits once (GrantsSpentOnce): the setup token, an invite and
\* a TOTP step, however many browsers present one at a time.
THEOREM GrantsSpentOnceCorrect == Spec => []GrantsSpentOnce
<1>1. ASSUME TypeOK, GrantInv, StepInv PROVE GrantsSpentOnce
  <2>1. OneAccountPerGrant
    <3> SUFFICES ASSUME NEW way \in Invite \cup {"setup"}
                 PROVE  Cardinality({a \in Standing : born[a] = way /\ Settled(a)}) <= 1
      BY DEF OneAccountPerGrant, Settled
    <3>1. \A a, c \in {x \in Standing : born[x] = way /\ Settled(x)} : a = c
      BY <1>1 DEF GrantInv, SetupAlone, InviteSpent
    <3> QED BY <3>1, AtMostOne
  <2>2. StepOpensOnce
    <3>1. \A u \in DOMAIN taken : \E a \in Account, s \in 1..(MaxClock + 1) : u = <<a, s>>
      BY <1>1 DEF TypeOK, CountType
    <3> QED BY <1>1, <3>1 DEF StepOpensOnce, StepInv
  <2> QED BY <2>1, <2>2 DEF GrantsSpentOnce
<1> QED BY <1>1, AccountsTypeCorrect, GrantsCorrect, StepsCorrect, PTL

-----------------------------------------------------------------------------
(* The sign-in limiter.                                                    *)

LimiterEntry == [failures : Nat, lastFailure : Nat, lockedUntil : Nat, firstLockedAt : Nat]

LimiterTypeOK ==
    /\ instant \in Nat \ {0}
    /\ entries \in [LimiterKey -> LimiterEntry]
    /\ since \in [LimiterKey -> Nat]

\* A lock in force says since when, and the key has been locked since then or later.
LocksDated ==
    \A k \in LimiterKey :
        /\ entries[k].firstLockedAt <= instant
        /\ instant < entries[k].lockedUntil => entries[k].firstLockedAt # 0
        /\ since[k] # 0 => /\ lockedAt(k, entries, instant)
                           /\ entries[k].firstLockedAt <= since[k]

LimiterInv == LimiterTypeOK /\ LocksDated

\* One failure: the entry's type, its dates, and what it leaves of a lock in force
\* (loginLimiter.fail).
LEMMA FailureDated ==
    ASSUME LimiterTypeOK, NEW e \in LimiterEntry, e.firstLockedAt <= instant,
           instant < e.lockedUntil => e.firstLockedAt # 0
    PROVE  /\ failEntry(e) \in LimiterEntry
           /\ failEntry(e).firstLockedAt <= instant
           /\ instant < failEntry(e).lockedUntil => failEntry(e).firstLockedAt # 0
           /\ instant < e.lockedUntil => failEntry(e).firstLockedAt = e.firstLockedAt
<1> DEFINE f == IF Forgets(e) THEN [e EXCEPT !.failures = 0, !.firstLockedAt = 0] ELSE e
           n == f.failures + 1
<1>0. instant \in Nat \ {0} /\ MaxFailures \in Nat /\ MaxLockout \in Nat
  BY LimiterAssumption DEF LimiterAssumption, LimiterTypeOK
<1>1. /\ f \in LimiterEntry /\ f.lockedUntil = e.lockedUntil
      /\ f.firstLockedAt <= instant
      /\ instant < f.lockedUntil => f.firstLockedAt # 0 /\ f.firstLockedAt = e.firstLockedAt
  <2>1. e.lockedUntil \in Nat /\ e.firstLockedAt \in Nat BY DEF LimiterEntry
  <2>2. CASE Forgets(e)
    <3>1. f = [e EXCEPT !.failures = 0, !.firstLockedAt = 0] BY <2>2
    <3> HIDE DEF f
    <3>2. f \in LimiterEntry /\ f.lockedUntil = e.lockedUntil /\ f.firstLockedAt = 0
      BY <3>1 DEF LimiterEntry
    <3>3. ~(instant < e.lockedUntil) BY <1>0, <2>1, <2>2 DEF Forgets
    <3> QED BY <1>0, <3>2, <3>3
  <2>3. CASE ~Forgets(e)
    <3>1. f = e BY <2>3
    <3> QED BY <3>1
  <2> QED BY <2>2, <2>3
<1> HIDE DEF f
<1>2. n \in Nat BY <1>1 DEF LimiterEntry
<1>3. lockoutFor(n) \in Nat BY <1>0 DEF lockoutFor
<1>4. failEntry(e) = [failures |-> n, lastFailure |-> instant,
          lockedUntil |-> IF n >= MaxFailures THEN instant + lockoutFor(n) ELSE f.lockedUntil,
          firstLockedAt |-> IF n >= MaxFailures THEN anchor(f) ELSE f.firstLockedAt]
  BY DEF failEntry, f
<1> HIDE DEF n
<1>5. anchor(f) \in Nat \ {0} /\ anchor(f) <= instant
      /\ (f.firstLockedAt # 0 => anchor(f) = f.firstLockedAt)
  BY <1>0, <1>1 DEF anchor, LimiterEntry
<1>6. f.lockedUntil \in Nat /\ f.firstLockedAt \in Nat BY <1>1 DEF LimiterEntry
<1>7. failEntry(e) \in LimiterEntry
  BY <1>0, <1>2, <1>3, <1>4, <1>5, <1>6 DEF LimiterEntry
<1>8. /\ failEntry(e).firstLockedAt = IF n >= MaxFailures THEN anchor(f) ELSE f.firstLockedAt
      /\ n < MaxFailures => failEntry(e).lockedUntil = f.lockedUntil
  BY <1>0, <1>2, <1>4
<1> QED BY <1>0, <1>1, <1>2, <1>5, <1>7, <1>8

\* Watching the locks keeps the dates of the watch in step with the entries'.
LEMMA WatchDated ==
    ASSUME LimiterInv, NEW t \in {instant, instant + 1}, NEW E \in [LimiterKey -> LimiterEntry],
           Observe(E, t),
           \A k \in LimiterKey :
               /\ E[k].firstLockedAt <= t
               /\ t < E[k].lockedUntil => E[k].firstLockedAt # 0
               /\ since[k] # 0 /\ lockedAt(k, E, t) => E[k].firstLockedAt = entries[k].firstLockedAt
    PROVE  /\ since' \in [LimiterKey -> Nat]
           /\ \A k \in LimiterKey : since'[k] # 0 => /\ lockedAt(k, E, t)
                                                     /\ E[k].firstLockedAt <= since'[k]
<1>1. t \in Nat BY DEF LimiterInv, LimiterTypeOK
<1>2. since' \in [LimiterKey -> Nat] BY <1>1 DEF Observe, LimiterInv, LimiterTypeOK
<1>3. ASSUME NEW k \in LimiterKey, since'[k] # 0
      PROVE  lockedAt(k, E, t) /\ E[k].firstLockedAt <= since'[k]
  <2>1. lockedAt(k, E, t) /\ since'[k] = IF since[k] = 0 THEN t ELSE since[k]
    BY <1>3 DEF Observe
  <2>2. since[k] # 0 => entries[k].firstLockedAt <= since[k] BY DEF LimiterInv, LocksDated
  <2> QED BY <2>1, <2>2
<1> QED BY <1>2, <1>3

\* The dates of every lock, whoever fails and however requests overlap.
LEMMA LocksDatedCorrect == LimiterSpec => []LimiterInv
<1>1. LimiterInit => LimiterInv
  BY DEF LimiterInit, LimiterInv, LimiterTypeOK, LocksDated, LimiterEntry, NoEntry
<1>2. ASSUME LimiterInv, [LimiterNext]_limiterVars PROVE LimiterInv'
  <2> USE <1>2
  <2>1. CASE LimiterClock
    <3>1. instant' = instant + 1 /\ entries' = entries /\ Observe(entries, instant')
      BY <2>1 DEF LimiterClock
    <3>2. \A k \in LimiterKey :
            /\ entries[k].firstLockedAt <= instant + 1
            /\ instant + 1 < entries[k].lockedUntil => entries[k].firstLockedAt # 0
      BY DEF LimiterInv, LimiterTypeOK, LocksDated, LimiterEntry
    <3>3. /\ since' \in [LimiterKey -> Nat]
          /\ \A k \in LimiterKey : since'[k] # 0 => /\ lockedAt(k, entries, instant')
                                                    /\ entries[k].firstLockedAt <= since'[k]
      BY <3>1, <3>2, WatchDated DEF LimiterInv, LimiterTypeOK
    <3> QED BY <3>1, <3>2, <3>3 DEF LimiterInv, LimiterTypeOK, LocksDated
  <2>2. ASSUME NEW g \in 1..MaxRequests, limiterFail(g) \/ limiterReset(g) PROVE LimiterInv'
    <3>1. instant' = instant /\ Observe(entries', instant)
      BY <2>2 DEF limiterFail, limiterReset
    <3>2. ASSUME NEW k \in LimiterKey
          PROVE  /\ entries'[k] \in LimiterEntry
                 /\ entries'[k].firstLockedAt <= instant
                 /\ instant < entries'[k].lockedUntil => entries'[k].firstLockedAt # 0
                 /\ since[k] # 0 /\ lockedAt(k, entries', instant) =>
                        entries'[k].firstLockedAt = entries[k].firstLockedAt
      <4>1. /\ entries[k] \in LimiterEntry /\ entries[k].firstLockedAt <= instant
            /\ instant < entries[k].lockedUntil => entries[k].firstLockedAt # 0
            /\ since[k] # 0 => instant < entries[k].lockedUntil
        BY DEF LimiterInv, LimiterTypeOK, LocksDated, lockedAt
      <4>2. CASE entries'[k] = entries[k] BY <4>1, <4>2
      <4>3. CASE entries'[k] = failEntry(entries[k])
        BY <4>1, <4>3, FailureDated DEF LimiterInv
      <4>4. CASE entries'[k] = NoEntry
        BY <4>4 DEF NoEntry, LimiterEntry, lockedAt, LimiterInv, LimiterTypeOK
      <4>5. entries'[k] \in {entries[k], failEntry(entries[k]), NoEntry}
        BY <2>2 DEF limiterFail, limiterReset
      <4> QED BY <4>2, <4>3, <4>4, <4>5
    <3>3. entries' \in [LimiterKey -> LimiterEntry]
      BY <2>2, <3>2 DEF limiterFail, limiterReset
    <3>4. PICK E \in [LimiterKey -> LimiterEntry] : E = entries' BY <3>3
    <3>5. /\ since' \in [LimiterKey -> Nat]
          /\ \A k \in LimiterKey : since'[k] # 0 => /\ lockedAt(k, E, instant)
                                                    /\ E[k].firstLockedAt <= since'[k]
      BY <3>1, <3>2, <3>4, WatchDated
    <3> QED BY <3>1, <3>2, <3>3, <3>4, <3>5 DEF LimiterInv, LimiterTypeOK, LocksDated, lockedAt
  <2>3. ASSUME NEW g \in 1..MaxRequests, NEW u \in User, NEW ip \in Source, limiterCheck(g, u, ip)
        PROVE  LimiterInv'
    BY <2>3 DEF limiterCheck, LimiterInv, LimiterTypeOK, LocksDated, lockedAt
  <2>4. CASE UNCHANGED limiterVars
    BY <2>4 DEF limiterVars, LimiterInv, LimiterTypeOK, LocksDated, lockedAt
  <2> QED BY <2>1, <2>2, <2>3, <2>4 DEF LimiterNext
<1> QED BY <1>1, <1>2, PTL DEF LimiterSpec

\* Nobody can keep a username locked (LockoutEnds): for all failures, in any order
\* and from any number of addresses, it is locked for less than the ceiling at a
\* stretch.
THEOREM LockoutEndsCorrect == LimiterSpec => []LockoutEnds
<1>1. ASSUME LimiterInv PROVE LockoutEnds
  <2> SUFFICES ASSUME NEW u \in User, since[u] # 0 PROVE instant - since[u] < AcctCeiling
    BY DEF LockoutEnds
  <2>1. u \in LimiterKey BY DEF LimiterKey
  <2>2. /\ lockedAt(u, entries, instant) /\ entries[u].firstLockedAt <= since[u]
        /\ instant < entries[u].lockedUntil => entries[u].firstLockedAt # 0
    BY <1>1, <2>1 DEF LimiterInv, LocksDated
  <2>3. instant < entries[u].lockedUntil
        /\ ~(entries[u].firstLockedAt # 0 /\ instant >= entries[u].firstLockedAt + AcctCeiling)
    BY <2>2 DEF lockedAt
  <2>4. /\ instant \in Nat /\ since[u] \in Nat /\ entries[u].firstLockedAt \in Nat
        /\ AcctCeiling \in Nat
    BY <1>1, <2>1, LimiterAssumption DEF LimiterAssumption, LimiterInv, LimiterTypeOK, LimiterEntry
  <2> QED BY <2>2, <2>3, <2>4
<1> QED BY <1>1, LocksDatedCorrect, PTL

-----------------------------------------------------------------------------
(* A set laid out as a sequence.                                           *)

\* SetToSeq lists the elements of a finite set, each once.
LEMMA SetLaidOut ==
    ASSUME NEW S, IsFiniteSet(S)
    PROVE  /\ SetToSeq(S) \in Seq(S) /\ Len(SetToSeq(S)) = Cardinality(S)
           /\ \A i, j \in 1..Len(SetToSeq(S)) : SetToSeq(S)[i] = SetToSeq(S)[j] => i = j
           /\ \A x \in S : \E i \in 1..Len(SetToSeq(S)) : SetToSeq(S)[i] = x
<1> DEFINE n == Cardinality(S)
           f == SetToSeq(S)
<1>1. n \in Nat /\ ExistsBijection(1..n, S)
  BY FS_CardinalityType
<1>2. PICK g : g \in Bijection(1..n, S)
  BY <1>1 DEF ExistsBijection
<1>3. g \in [1..n -> S] /\ IsInjective(g)
  BY <1>2 DEF Bijection, Injection
<1>4. f \in [1..n -> S] /\ IsInjective(f)
  BY <1>3 DEF SetToSeq
<1> HIDE DEF f
<1>5. f \in Seq(S) /\ Len(f) = n
  BY <1>1, <1>4, SeqDef, LenProperties
<1>6. f \in Surjection(1..n, S)
  <2>1. f \in Injection(1..n, S)
    BY <1>4 DEF Injection
  <2>2. IsFiniteSet(1..n) /\ Cardinality(1..n) = n
    BY <1>1, FS_Interval
  <2> QED BY <2>1, <2>2, FS_Injection
<1>7. DOMAIN f = 1..n
  BY <1>4
<1>8. \A i, j \in 1..n : f[i] = f[j] => i = j
  BY <1>4, <1>7 DEF IsInjective
<1>9. \A x \in S : \E i \in 1..n : f[i] = x
  BY <1>6 DEF Surjection
<1> QED BY <1>5, <1>8, <1>9 DEF f

-----------------------------------------------------------------------------
(* Dials: the act log tells where they stand.                              *)

Move == [dial : Dial, value : UNION {{f[d] : d \in DOMAIN f} : f \in Form}]

\* An open transaction has its row to itself and what it saw still stands.
Holding(m) ==
    /\ m.form \in Form /\ m.row = RowOfForm(m.form)
    /\ \A d \in DOMAIN m.form : m.seen[d] = dial[d]

DialInv ==
    /\ dial = [d \in Dial |-> dial[d]]
    /\ acts \in Seq(Move)
    /\ moving = [o \in Operator |-> moving[o]]
    /\ \A o \in Operator : moving[o] = NoMove \/ (moving[o] # NoMove /\ Holding(moving[o]))
    /\ \A o, p \in Operator : moving[o] # NoMove /\ moving[p] # NoMove /\ moving[o].row = moving[p].row => o = p
    /\ LogTellsDials

\* The dials of a form are on one row.
LEMMA FormRow ==
    ASSUME NEW f \in Form
    PROVE  /\ DOMAIN f \in SUBSET Dial /\ DOMAIN f # {} /\ IsFiniteSet(DOMAIN f)
           /\ \A d \in DOMAIN f : RowOf(d) = RowOfForm(f)
           /\ \A d \in DOMAIN f : [dial |-> d, value |-> f[d]] \in Move
<1>1. PICK D, V : /\ f \in [D -> V]
                  /\ \/ D = {"observation currency", "dispatch cadence"}
                     \/ \E d \in Dial : D = {d}
  <2>1. \/ \E V : f \in [{"observation currency", "dispatch cadence"} -> V]
        \/ \E d \in Dial : \E V : f \in [{d} -> V]
    BY DEF Form, updateCoverageRetention, updateRetention, updateAddressCap, updateCheckToggle, apiToggle,
       setZoneInterval, setDnsInterval, Dial
  <2> QED BY <2>1
<1>2. DOMAIN f = D
  BY <1>1
<1>3. D \in SUBSET Dial /\ D # {} /\ IsFiniteSet(D)
  <2>1. \A x : IsFiniteSet({x}) /\ IsFiniteSet({x} \cup {"dispatch cadence"})
    BY FS_Singleton, FS_AddElement
  <2>2. {"observation currency", "dispatch cadence"} = {"observation currency"} \cup {"dispatch cadence"}
    OBVIOUS
  <2> QED BY <1>1, <2>1, <2>2 DEF Dial
<1>4. \A d, e \in D : RowOf(d) = RowOf(e)
  BY <1>1 DEF RowOf
<1>5. (CHOOSE d \in D : TRUE) \in D
  BY <1>3
<1>6. \A d \in DOMAIN f : [dial |-> d, value |-> f[d]] \in Move
  BY <1>2, <1>3 DEF Move
<1> QED BY <1>2, <1>3, <1>4, <1>5, <1>6 DEF RowOfForm

\* What a move records: one act for each dial it changed, of the value it set.
LEMMA RecordedMoves ==
    ASSUME NEW m, m.form \in Form
    PROVE  LET S == Recorded(m) IN
           /\ S \in Seq(Move)
           /\ \A i \in 1..Len(S) : /\ S[i].dial \in DOMAIN m.form
                                   /\ S[i].value = m.form[S[i].dial]
                                   /\ S[i].value # m.seen[S[i].dial]
           /\ \A i, j \in 1..Len(S) : S[i].dial = S[j].dial => i = j
           /\ \A d \in DOMAIN m.form : m.form[d] # m.seen[d] => \E i \in 1..Len(S) : S[i].dial = d
<1> DEFINE moved == {d \in DOMAIN m.form : m.form[d] # m.seen[d]}
           act(d) == [dial |-> d, value |-> m.form[d]]
           R == {act(d) : d \in moved}
           S == SetToSeq(R)
<1>1. S = Recorded(m)
  BY DEF Recorded
<1>2. IsFiniteSet(moved) /\ moved \subseteq DOMAIN m.form
  BY FormRow, FS_Subset
<1>3. \A d \in moved : act(d) \in Move /\ act(d).dial = d /\ act(d).value = m.form[d]
  BY <1>2, FormRow
<1> HIDE DEF act
<1>4. IsFiniteSet(R)
  <2>1. [d \in moved |-> act(d)] \in Surjection(moved, R)
    BY DEF Surjection
  <2> QED BY <1>2, <2>1, FS_Surjection
<1>5. R \subseteq Move
  BY <1>3
<1>6. \A r \in R : r.dial \in moved /\ r.value = m.form[r.dial] /\ r = act(r.dial)
  BY <1>3
<1>7. \A d \in moved : act(d) \in R /\ act(d).dial = d
  BY <1>3
<1> HIDE DEF R, S
<1>8. /\ S \in Seq(R)
      /\ \A i, j \in 1..Len(S) : S[i] = S[j] => i = j
      /\ \A x \in R : \E i \in 1..Len(S) : S[i] = x
  BY <1>4, SetLaidOut DEF S
<1>9. \A i \in 1..Len(S) : S[i] \in R
  BY <1>8, ElementOfSeq
<1>10. S \in Seq(Move)
  <2>1. Len(S) \in Nat /\ S \in [1..Len(S) -> R]
    BY <1>8, LenProperties
  <2>2. S \in [1..Len(S) -> Move]
    BY <1>5, <2>1
  <2> QED BY <2>1, <2>2, SeqDef
<1>11. \A i \in 1..Len(S) : S[i].dial \in moved /\ S[i].value = m.form[S[i].dial] /\ S[i] = act(S[i].dial)
  BY <1>6, <1>9
<1>12. ASSUME NEW i \in 1..Len(S), NEW j \in 1..Len(S), S[i].dial = S[j].dial
       PROVE  i = j
  <2>1. S[i] = act(S[i].dial) /\ S[j] = act(S[j].dial)
    BY <1>11
  <2>2. S[i] = S[j]
    BY <1>12, <2>1, Zenon
  <2>3. \A k, l \in 1..Len(S) : S[k] = S[l] => k = l
    BY <1>8
  <2> QED BY <2>2, <2>3, Zenon
<1>13. \A d \in moved : \E i \in 1..Len(S) : S[i].dial = d
  BY <1>7, <1>8
<1> QED BY <1>1, <1>10, <1>11, <1>12, <1>13

\* Behind the n acts of the log come those of S, at the places at gives, of
\* distinct dials and each of a value other than its dial's; the dials follow.
LogExtends(n, S, at) ==
    /\ n \in Nat /\ acts \in Seq(Move) /\ DOMAIN acts = 1..n /\ Len(S) \in Nat
    /\ \A i, j \in 1..Len(S) : S[i].dial = S[j].dial => i = j
    /\ \A i \in 1..Len(S) : S[i].value # dial[S[i].dial] /\ dial'[S[i].dial] = S[i].value
    /\ \A d \in Dial : (\A i \in 1..Len(S) : S[i].dial # d) => dial'[d] = dial[d]
    /\ 1..n \subseteq DOMAIN acts'
    /\ \A i \in 1..n : acts'[i] = acts[i]
    /\ \A k \in 1..Len(S) : acts'[at[k]] = S[k] /\ at[k] \in DOMAIN acts' /\ at[k] \in Nat /\ n < at[k]
    /\ \A i \in DOMAIN acts' : i \in 1..n \/ \E k \in 1..Len(S) : i = at[k]

\* A log that told the dials tells them still when it is so extended.
LEMMA LogGrows ==
    ASSUME NEW n, NEW S, NEW at, LogTellsDials, LogExtends(n, S, at)
    PROVE  LogTellsDials'
<1> USE DEF LogExtends
<1>2. n = Len(acts)
  BY LenProperties
<1>4. \A i \in 1..n : acts[i].dial \in Dial
  <2> SUFFICES ASSUME NEW i \in 1..n PROVE acts[i].dial \in Dial
    OBVIOUS
  <2>1. acts[i] \in Move
    BY ElementOfSeq
  <2> QED BY <2>1 DEF Move
<1>8. ASSUME NEW i \in 1..n, \A j \in DOMAIN acts' : i < j => acts'[j].dial # acts'[i].dial
      PROVE  dial'[acts'[i].dial] = acts'[i].value
  <2>1. LastMove(i)
    BY <1>2, <1>8 DEF LastMove
  <2>2. dial[acts[i].dial] = acts[i].value
    BY <1>2, <2>1 DEF LogTellsDials
  <2>3. \A k \in 1..Len(S) : S[k].dial # acts[i].dial
    <3> SUFFICES ASSUME NEW k \in 1..Len(S) PROVE S[k].dial # acts[i].dial
      OBVIOUS
    <3>1. at[k] \in DOMAIN acts' /\ i < at[k]
      BY <1>2
    <3> QED BY <1>8, <3>1
  <2> QED BY <1>4, <2>2, <2>3
<1>9. (\A i \in DOMAIN acts : LastMove(i) => dial[acts[i].dial] = acts[i].value)'
  <2> SUFFICES ASSUME NEW i \in DOMAIN acts', \A j \in DOMAIN acts' : i < j => acts'[j].dial # acts'[i].dial
               PROVE  dial'[acts'[i].dial] = acts'[i].value
    BY DEF LastMove
  <2>1. CASE i \in 1..n
    BY <1>8, <2>1
  <2>2. CASE \E k \in 1..Len(S) : i = at[k]
    BY <2>2
  <2> QED BY <2>1, <2>2
<1>10. (\A i, j \in DOMAIN acts : NextMove(i, j) => acts[i].value # acts[j].value)'
  <2> SUFFICES ASSUME NEW i \in DOMAIN acts', NEW j \in DOMAIN acts', i < j, acts'[i].dial = acts'[j].dial,
                      \A k \in (i + 1)..(j - 1) : acts'[k].dial # acts'[i].dial
               PROVE  acts'[i].value # acts'[j].value
    BY DEF NextMove
  <2>1. CASE i \in 1..n /\ j \in 1..n
    <3>1. \A k \in (i + 1)..(j - 1) : k \in 1..n /\ acts'[k] = acts[k]
      BY <1>2, <2>1
    <3>2. NextMove(i, j)
      BY <2>1, <3>1 DEF NextMove
    <3> QED BY <1>2, <2>1, <3>2 DEF LogTellsDials
  <2>2. ASSUME i \in 1..n, NEW k \in 1..Len(S), j = at[k]
        PROVE  acts'[i].value # acts'[j].value
    <3>1. \A h \in 1..n : i < h => h \in (i + 1)..(j - 1)
      BY <1>2, <2>2
    <3>2. LastMove(i)
      BY <1>2, <2>2, <3>1 DEF LastMove
    <3>3. dial[acts[i].dial] = acts[i].value
      BY <1>2, <2>2, <3>2 DEF LogTellsDials
    <3> QED BY <2>2, <3>3
  <2>3. ASSUME NEW h \in 1..Len(S), i = at[h], NEW k \in 1..Len(S), j = at[k]
        PROVE  FALSE
    <3>1. S[h].dial = S[k].dial
      BY <2>3
    <3>2. h = k /\ i \in Nat
      BY <2>3, <3>1
    <3> QED BY <2>3, <3>2
  <2>4. ASSUME NEW h \in 1..Len(S), i = at[h], j \in 1..n
        PROVE  FALSE
    BY <1>2, <2>4
  <2> QED BY <2>1, <2>2, <2>3, <2>4
<1>11. (\A d \in Dial : (\A i \in DOMAIN acts : acts[i].dial # d) => dial[d] = Shipped[d])'
  <2> SUFFICES ASSUME NEW d \in Dial, \A i \in DOMAIN acts' : acts'[i].dial # d
               PROVE  dial'[d] = Shipped[d]
    BY DEF Shipped, Dial
  <2>1. \A i \in DOMAIN acts : acts[i].dial # d
    BY <1>2
  <2>2. \A k \in 1..Len(S) : S[k].dial # d
    OBVIOUS
  <2> QED BY <2>1, <2>2 DEF LogTellsDials
<1> QED BY <1>9, <1>10, <1>11 DEF LogTellsDials

\* A move commits the dials it set and the acts of those it changed; the other
\* transactions hold other rows, so what they saw stands.
LEMMA MoveStep ==
    ASSUME DialInv, NEW o \in Operator, moveDial(o)
    PROVE  DialInv'
<1> DEFINE m == moving[o]
           S == Recorded(m)
<1>1. /\ m # NoMove /\ dial' = [d \in Dial |-> IF d \in DOMAIN m.form THEN m.form[d] ELSE dial[d]]
      /\ acts' = acts \o S
      /\ moving' = [moving EXCEPT ![o] = NoMove]
  BY DEF moveDial
<1>2. Holding(m) /\ m.form \in Form
  BY <1>1 DEF DialInv, Holding
<1>3. DOMAIN m.form \in SUBSET Dial /\ \A d \in DOMAIN m.form : RowOf(d) = RowOfForm(m.form)
  BY <1>2, FormRow
<1>4. /\ dial' = [d \in Dial |-> dial'[d]]
      /\ \A d \in Dial : dial'[d] = IF d \in DOMAIN m.form THEN m.form[d] ELSE dial[d]
  BY <1>1
<1>5. /\ S \in Seq(Move)
      /\ \A i \in 1..Len(S) : /\ S[i].dial \in DOMAIN m.form
                              /\ S[i].value = m.form[S[i].dial]
                              /\ S[i].value # m.seen[S[i].dial]
      /\ \A i, j \in 1..Len(S) : S[i].dial = S[j].dial => i = j
      /\ \A d \in DOMAIN m.form : m.form[d] # m.seen[d] => \E i \in 1..Len(S) : S[i].dial = d
  BY <1>2, RecordedMoves
<1> HIDE DEF S
<1>6. \A i \in 1..Len(S) : S[i].value # dial[S[i].dial] /\ dial'[S[i].dial] = S[i].value
  BY <1>2, <1>3, <1>4, <1>5 DEF Holding
<1>7. \A d \in Dial : (\A i \in 1..Len(S) : S[i].dial # d) => dial'[d] = dial[d]
  BY <1>2, <1>4, <1>5 DEF Holding
<1>8. acts' \in Seq(Move) /\ LogTellsDials'
  <2>1. PICK n, R, at : n = Len(acts) /\ R = S /\ at = [k \in 1..Len(R) |-> n + k]
    OBVIOUS
  <2>2. acts \in Seq(Move) /\ n \in Nat /\ DOMAIN acts = 1..n /\ Len(R) \in Nat /\ R \in Seq(Move)
    BY <1>5, <2>1, LenProperties DEF DialInv
  <2>3. /\ acts' \in Seq(Move) /\ DOMAIN acts' = 1..(n + Len(R))
        /\ \A i \in 1..(n + Len(R)) : acts'[i] = IF i <= n THEN acts[i] ELSE R[i - n]
    <3>1. /\ acts \o R \in Seq(Move) /\ Len(acts \o R) = n + Len(R)
          /\ \A i \in 1..(n + Len(R)) : (acts \o R)[i] = IF i <= n THEN acts[i] ELSE R[i - n]
      BY <2>1, <2>2, ConcatProperties
    <3>2. acts' = acts \o R
      BY <1>1, <2>1
    <3> QED BY <3>1, <3>2, LenProperties
  <2>4. \A k \in 1..Len(R) : at[k] = n + k
    BY <2>1
  <2>5. \A k \in 1..Len(R) : /\ at[k] \in 1..(n + Len(R)) /\ at[k] \in Nat /\ n < at[k] /\ at[k] - n = k
                              /\ ~(at[k] <= n)
    BY <2>2, <2>4
  <2>6. 1..n \subseteq DOMAIN acts' /\ \A i \in 1..n : acts'[i] = acts[i]
    BY <2>2, <2>3
  <2>7. \A k \in 1..Len(R) : acts'[at[k]] = R[k]
    BY <2>3, <2>5
  <2>8. \A i \in DOMAIN acts' : i \in 1..n \/ \E k \in 1..Len(R) : i = at[k]
    <3> SUFFICES ASSUME NEW i \in DOMAIN acts', i \notin 1..n PROVE \E k \in 1..Len(R) : i = at[k]
      OBVIOUS
    <3>1. i - n \in 1..Len(R) /\ i = n + (i - n)
      BY <2>2, <2>3
    <3>2. i = at[i - n]
      BY <2>4, <3>1
    <3> QED BY <3>1, <3>2
  <2>9. /\ \A i, j \in 1..Len(R) : R[i].dial = R[j].dial => i = j
        /\ \A i \in 1..Len(R) : R[i].value # dial[R[i].dial] /\ dial'[R[i].dial] = R[i].value
        /\ \A d \in Dial : (\A i \in 1..Len(R) : R[i].dial # d) => dial'[d] = dial[d]
    BY <1>5, <1>6, <1>7, <2>1
  <2>10. LogTellsDials
    BY DEF DialInv
  <2>11. LogTellsDials'
    <3>1. LogExtends(n, R, at)
      BY <2>2, <2>3, <2>5, <2>6, <2>7, <2>8, <2>9 DEF LogExtends
    <3> QED BY <2>10, <3>1, LogGrows
  <2> QED BY <2>3, <2>11
<1>9. /\ moving' = [p \in Operator |-> moving'[p]]
      /\ \A p \in Operator : moving'[p] = IF p = o THEN NoMove ELSE moving[p]
  BY <1>1 DEF DialInv
<1>10. ASSUME NEW p \in Operator, p # o, moving[p] # NoMove
       PROVE  Holding(moving[p])'
  <2>1. Holding(moving[p]) /\ moving[p].row # m.row
    BY <1>1, <1>10 DEF DialInv
  <2>2. \A d \in DOMAIN moving[p].form : d \in Dial /\ RowOf(d) = moving[p].row
    BY <2>1, FormRow DEF Holding
  <2>3. \A d \in DOMAIN moving[p].form : d \notin DOMAIN m.form
    BY <1>2, <1>3, <2>1, <2>2 DEF Holding
  <2>4. \A d \in DOMAIN moving[p].form : dial'[d] = dial[d]
    BY <1>4, <2>2, <2>3
  <2>5. moving'[p] = moving[p]
    BY <1>9, <1>10
  <2> QED BY <2>1, <2>4, <2>5 DEF Holding
<1>11. (\A p \in Operator : moving[p] = NoMove \/ (moving[p] # NoMove /\ Holding(moving[p])))'
  BY <1>9, <1>10 DEF DialInv
<1>12. (\A p, q \in Operator : moving[p] # NoMove /\ moving[q] # NoMove /\ moving[p].row = moving[q].row => p = q)'
  BY <1>9 DEF DialInv
<1> QED BY <1>4, <1>8, <1>9, <1>11, <1>12 DEF DialInv

\* A transaction opens on a free row and sees the dials as they stand.
LEMMA LockStep ==
    ASSUME DialInv, NEW o \in Operator, NEW f \in Form, LockDial(o, f)
    PROVE  DialInv'
<1> DEFINE m == [row |-> RowOfForm(f), form |-> f, seen |-> [d \in DOMAIN f |-> dial[d]]]
<1>1. /\ moving[o] = NoMove /\ RowFree(RowOfForm(f)) /\ moving' = [moving EXCEPT ![o] = m]
      /\ dial' = dial /\ acts' = acts
  BY DEF LockDial
<1>2. m.row = RowOfForm(f) /\ m.form = f /\ \A d \in DOMAIN f : m.seen[d] = dial[d]
  OBVIOUS
<1> HIDE DEF m
<1>3. moving' = [p \in Operator |-> moving'[p]] /\ \A p \in Operator : moving'[p] = IF p = o THEN m ELSE moving[p]
  BY <1>1 DEF DialInv
<1>4. Holding(m)
  BY <1>2 DEF Holding
<1>5. \A p \in Operator : moving[p].row # m.row
  BY <1>1, <1>2 DEF RowFree
<1>6. (\A p \in Operator : moving[p] = NoMove \/ (moving[p] # NoMove /\ Holding(moving[p])))'
  BY <1>1, <1>3, <1>4 DEF DialInv, Holding
<1>7. (\A p, q \in Operator : moving[p] # NoMove /\ moving[q] # NoMove /\ moving[p].row = moving[q].row => p = q)'
  BY <1>3, <1>5 DEF DialInv
<1>8. LogTellsDials'
  BY <1>1 DEF DialInv, LogTellsDials, NextMove, LastMove
<1> QED BY <1>1, <1>3, <1>6, <1>7, <1>8 DEF DialInv

\* A transaction rolled back, or nothing at all, leaves the dials and the log.
LEMMA RestStep ==
    ASSUME DialInv, (\E o \in Operator : rollBackDial(o)) \/ UNCHANGED dialVars
    PROVE  DialInv'
<1>1. dial' = dial /\ acts' = acts
  BY DEF rollBackDial, dialVars
<1>2. LogTellsDials'
  BY <1>1 DEF DialInv, LogTellsDials, NextMove, LastMove
<1>3. moving' = [p \in Operator |-> moving'[p]] /\ \A p \in Operator : moving'[p] \in {NoMove, moving[p]}
  BY DEF rollBackDial, dialVars, DialInv
<1>4. (\A p \in Operator : moving[p] = NoMove \/ (moving[p] # NoMove /\ Holding(moving[p])))'
  <2> SUFFICES ASSUME NEW p \in Operator, moving'[p] # NoMove PROVE Holding(moving[p])'
    OBVIOUS
  <2>1. moving'[p] = moving[p] /\ Holding(moving[p])
    BY <1>3 DEF DialInv
  <2> QED BY <1>1, <2>1 DEF Holding
<1>5. (\A p, q \in Operator : moving[p] # NoMove /\ moving[q] # NoMove /\ moving[p].row = moving[q].row => p = q)'
  BY <1>3 DEF DialInv
<1> QED BY <1>1, <1>2, <1>3, <1>4, <1>5 DEF DialInv

\* The act log is the dials' history, however the operators' moves overlap.
THEOREM LogTells == DialsSpec => []LogTellsDials
<1>1. DialsInit => DialInv
  <2> SUFFICES ASSUME DialsInit PROVE DialInv
    OBVIOUS
  <2>1. <<>> \in Seq(Move) /\ DOMAIN <<>> = {}
    BY EmptySeq
  <2> QED BY <2>1 DEF DialsInit, DialInv, Shipped, NoMove, LogTellsDials
<1>2. DialInv /\ [DialsNext]_dialVars => DialInv'
  BY MoveStep, LockStep, RestStep DEF DialsNext
<1>3. DialInv => LogTellsDials
  BY DEF DialInv
<1> QED BY <1>1, <1>2, <1>3, PTL DEF DialsSpec

-----------------------------------------------------------------------------
(* Restore: nothing of the old instance is left behind.                    *)

BusinessRow ==
    [table : Used, id : 1..MaxId, cites : SUBSET (Used \X (1..MaxId)), secret : BOOLEAN,
     avail : {"pending", "available", "unavailable"}]

Archived(a) == a = [tables |-> a.tables, rows |-> a.rows] /\ a.rows \in Seq(BusinessRow)

RestoreTyped ==
    /\ rows \subseteq BusinessRow /\ IsFiniteSet(rows)
    /\ seq \in [Used -> Nat]
    /\ restores \in Nat
    /\ Archived(dump) /\ Archived(saved)
    /\ staged = [a \in Admin |-> staged[a]] /\ applying = [a \in Admin |-> applying[a]]
    /\ \A a \in Admin : Archived(staged[a]) /\ Archived(applying[a])

\* The inductive invariant.
RestoreInv == RestoreTyped /\ SequencesAhead /\ ActsOneTimeline

\* A bounded set of numbers has a greatest.
LEMMA GreatestOf ==
    ASSUME NEW S \in SUBSET Nat, S # {}, NEW b \in Nat, \A n \in S : n <= b
    PROVE  \E n \in S : \A m \in S : m <= n
<1> DEFINE Below == {b - n : n \in S}
<1>1. Below \in SUBSET Nat /\ Below # {}
  <2>1. \A n \in S : b - n \in Nat OBVIOUS
  <2> QED BY <2>1
<1>2. PICK t \in Below : \A u \in Below : ~(u < t)
  <2> DEFINE R == OpToRel(<, Nat)
  <2>1. IsWellFoundedOn(R, Nat) BY NatLessThanWellFounded
  <2> HIDE DEF R
  <2>2. \E t \in Below : \A u \in Below : ~(<<u, t>> \in R) BY <1>1, <2>1, WFMin
  <2> QED BY <1>1, <2>2 DEF R, OpToRel
<1>3. PICK n \in S : t = b - n OBVIOUS
<1>4. ASSUME NEW m \in S PROVE m <= n
  <2>1. ~(b - m < b - n) BY <1>2, <1>3
  <2> QED BY <2>1
<1> QED BY <1>4

\* The resync reads the greatest id of a table (resyncIdentitySequencesSQL).
LEMMA ResyncReadsMax ==
    ASSUME NEW R \in SUBSET BusinessRow, NEW t \in Used
    PROVE  /\ MaxIdOf(R, t) \in 0..MaxId
           /\ \A r \in R : r.table = t => r.id <= MaxIdOf(R, t)
<1> DEFINE ids == {r.id : r \in RowsOf(R, t)}
<1>1. CASE RowsOf(R, t) = {}
  BY <1>1, RestoreAssumption DEF MaxIdOf, RowsOf
<1>2. CASE RowsOf(R, t) # {}
  <2>1. ids \in SUBSET Nat /\ ids # {} /\ ids \subseteq 1..MaxId
    BY <1>2, RestoreAssumption DEF RowsOf, BusinessRow
  <2>2. PICK n \in ids : \A m \in ids : m <= n
    <3> HIDE DEF ids
    <3>1. MaxId \in Nat /\ \A n \in ids : n <= MaxId
      BY <2>1, RestoreAssumption
    <3> QED BY <2>1, <3>1, GreatestOf
  <2>3. \E i \in 1..MaxId : /\ \E r \in RowsOf(R, t) : r.id = i
                            /\ \A r \in RowsOf(R, t) : r.id <= i
    BY <2>1, <2>2
  <2>4. MaxIdOf(R, t) = CHOOSE i \in 1..MaxId : /\ \E r \in RowsOf(R, t) : r.id = i
                                                /\ \A r \in RowsOf(R, t) : r.id <= i
    BY <1>2 DEF MaxIdOf
  <2>5. MaxIdOf(R, t) \in 1..MaxId /\ \A r \in RowsOf(R, t) : r.id <= MaxIdOf(R, t)
    BY <2>3, <2>4
  <2> QED BY <2>5, RestoreAssumption DEF RowsOf
<1> QED BY <1>1, <1>2

-----------------------------------------------------------------------------
(* What a row becomes.                                                      *)

\* A row that is redacted is the same row (redactBackupRow).
LEMMA RedactedRow ==
    ASSUME NEW r \in BusinessRow
    PROVE  /\ redactBackupRow(r) \in BusinessRow
           /\ redactBackupRow(r).table = r.table /\ redactBackupRow(r).id = r.id
BY DEF redactBackupRow, BusinessRow

Replayed(r) == [resetProberKeys(r) EXCEPT !.avail = IF r.avail = "available" THEN "unavailable" ELSE @]

\* A row that is replayed is the same row, whatever becomes of its keys
\* (resetProberKeys, and the vantages marked after the resync).
LEMMA ReplayedRow ==
    ASSUME NEW r \in BusinessRow
    PROVE  Replayed(r) \in BusinessRow /\ Replayed(r).table = r.table /\ Replayed(r).id = r.id
<1>1. /\ redactBackupRow(r) \in BusinessRow
      /\ redactBackupRow(r).table = r.table /\ redactBackupRow(r).id = r.id
  BY RedactedRow
<1>2. /\ resetProberKeys(r) \in BusinessRow
      /\ resetProberKeys(r).table = r.table /\ resetProberKeys(r).id = r.id
  BY <1>1 DEF resetProberKeys, BusinessRow
<1> QED BY <1>2 DEF Replayed, BusinessRow

\* What is replayed is what was there, row by row.
LEMMA ReplayedRows ==
    ASSUME NEW R \in SUBSET BusinessRow, IsFiniteSet(R)
    PROVE  /\ MarkReplayed(R) \subseteq BusinessRow /\ IsFiniteSet(MarkReplayed(R))
           /\ \A q \in MarkReplayed(R) : \E r \in R : Key(q) = Key(r)
<1> DEFINE f == [r \in R |-> Replayed(r)]
<1>1. MarkReplayed(R) = {Replayed(r) : r \in R}
  BY DEF MarkReplayed, Replayed
<1>2. MarkReplayed(R) \subseteq BusinessRow /\ \A q \in MarkReplayed(R) : \E r \in R : Key(q) = Key(r)
  BY <1>1, ReplayedRow DEF Key
<1>3. f \in Surjection(R, MarkReplayed(R))
  BY <1>1 DEF Surjection
<1>4. IsFiniteSet(MarkReplayed(R))
  <2> HIDE DEF f
  <2> QED BY <1>3, FS_Surjection
<1> QED BY <1>2, <1>4

\* The rows of an archive are finitely many.
LEMMA ArchivedRows ==
    ASSUME NEW s \in Seq(BusinessRow)
    PROVE  Range(s) \subseteq BusinessRow /\ IsFiniteSet(Range(s))
<1>1. Range(s) = {s[i] : i \in 1..Len(s)} /\ Range(s) \in SUBSET BusinessRow /\ Len(s) \in Nat
  BY RangeEquality, RangeOfSeq, LenProperties
<1>2. [i \in 1..Len(s) |-> s[i]] \in Surjection(1..Len(s), Range(s))
  BY <1>1 DEF Surjection
<1>3. IsFiniteSet(1..Len(s))
  BY <1>1, FS_Interval
<1> QED BY <1>1, <1>2, <1>3, FS_Surjection

\* What TRUNCATE ... CASCADE is asked to empty it empties, and the act log is
\* always asked for (truncateTables).
LEMMA ActsAreTruncated ==
    ASSUME NEW a
    PROVE  "act" \in Truncated(a)
<1>1. "act" \in truncateTables(a) \cap Used
  BY RestoreAssumption DEF truncateTables
<1> QED BY <1>1 DEF Truncated, CascadeFrom

-----------------------------------------------------------------------------
(* The steps.                                                               *)

\* A handler's insert takes the next id of its table.
LEMMA InsertKeeps ==
    ASSUME RestoreInv, NEW t \in Used, NEW cited \in SUBSET {Key(r) : r \in rows}, InsertRow(t, cited)
    PROVE  RestoreInv'
<1> DEFINE q == Row(t, seq[t] + 1, cited)
<1>1. seq[t] \in Nat /\ seq[t] + 1 \in 1..MaxId /\ cited \subseteq Used \X (1..MaxId)
  BY RestoreAssumption DEF InsertRow, RestoreInv, RestoreTyped, Key, BusinessRow
<1>2. q \in BusinessRow /\ q.table = t /\ q.id = seq[t] + 1
  BY <1>1 DEF Row, BusinessRow
<1>3. /\ rows' = rows \cup {q} /\ seq' = [seq EXCEPT ![t] = @ + 1]
      /\ UNCHANGED <<dump, saved, staged, applying, restores>>
  BY DEF InsertRow
<1>4. RestoreTyped'
  <2>1. IsFiniteSet(rows \cup {q})
    BY FS_AddElement DEF RestoreInv, RestoreTyped
  <2> QED BY <1>1, <1>2, <1>3, <2>1 DEF RestoreInv, RestoreTyped, Archived
<1>5. SequencesAhead'
  <2> SUFFICES ASSUME NEW r \in rows' PROVE r.id <= seq'[r.table]
    BY DEF SequencesAhead
  <2>1. r \in BusinessRow /\ seq' \in [Used -> Nat] /\ seq \in [Used -> Nat]
    BY <1>4 DEF RestoreTyped, RestoreInv
  <2>2. r.table \in Used /\ r.id \in Nat
    BY <2>1, RestoreAssumption DEF BusinessRow
  <2>3. CASE r = q
    BY <1>1, <1>2, <1>3, <2>1, <2>3
  <2>4. CASE r # q
    <3>1. r.id <= seq[r.table]
      BY <1>3, <2>4 DEF RestoreInv, SequencesAhead
    <3> QED BY <1>3, <2>1, <2>2, <3>1
  <2> QED BY <2>3, <2>4
<1>6. ActsOneTimeline'
  BY <1>3 DEF InsertRow, RestoreInv, ActsOneTimeline
<1> QED BY <1>4, <1>5, <1>6 DEF RestoreInv

\* A prober that answers is the same row.
LEMMA PinStep ==
    ASSUME RestoreInv, NEW r \in rows, PinProber(r)
    PROVE  RestoreInv'
<1> DEFINE q == [r EXCEPT !.secret = TRUE, !.avail = "available"]
<1>1. r \in BusinessRow
  BY DEF RestoreInv, RestoreTyped
<1>2. q \in BusinessRow /\ q.table = r.table /\ q.id = r.id
  BY <1>1 DEF BusinessRow
<1>3. rows' = (rows \ {r}) \cup {q} /\ UNCHANGED <<seq, epoch, dump, saved, staged, applying, restores>>
  BY DEF PinProber
<1> HIDE DEF q
<1>4. IsFiniteSet(rows')
  BY <1>3, FS_RemoveElement, FS_AddElement DEF RestoreInv, RestoreTyped
<1>5. RestoreTyped'
  BY <1>2, <1>3, <1>4 DEF RestoreInv, RestoreTyped, Archived
<1>6. SequencesAhead' /\ ActsOneTimeline'
  BY <1>2, <1>3 DEF RestoreInv, SequencesAhead, ActsOneTimeline
<1> QED BY <1>5, <1>6 DEF RestoreInv

\* A table that is streamed adds its rows to the archive.
LEMMA StreamStep ==
    ASSUME RestoreInv, streamBackup
    PROVE  RestoreInv'
<1> DEFINE t == Streams[Len(dump.tables) + 1]
           S == {redactBackupRow(r) : r \in RowsOf(rows, t)}
<1>1. dump' = dumpBackupTable(t) /\ UNCHANGED <<rows, seq, epoch, saved, staged, applying, restores>>
  BY DEF streamBackup
<1>2. RowsOf(rows, t) \subseteq rows /\ RowsOf(rows, t) \subseteq BusinessRow /\ IsFiniteSet(RowsOf(rows, t))
  <2> HIDE DEF t
  <2>1. RowsOf(rows, t) \subseteq rows
    BY DEF RowsOf
  <2> QED BY <2>1, FS_Subset DEF RestoreInv, RestoreTyped
<1> HIDE DEF t
<1>3. S \subseteq BusinessRow
  BY <1>2, RedactedRow
<1>4. IsFiniteSet(S)
  <2> DEFINE f == [r \in RowsOf(rows, t) |-> redactBackupRow(r)]
  <2>1. f \in Surjection(RowsOf(rows, t), S)
    BY DEF Surjection
  <2> HIDE DEF f, S
  <2> QED BY <1>2, <2>1, FS_Surjection
<1> DEFINE x == SetToSeq(S)
<1>5. x \in Seq(BusinessRow)
  <2> HIDE DEF S
  <2>1. x \in Seq(S)
    BY <1>4, SetLaidOut
  <2> QED BY <1>3, <2>1
<1>6. dump'.rows = dump.rows \o x /\ dump' = [tables |-> dump'.tables, rows |-> dump'.rows]
  <2>1. dumpBackupTable(t) = [dump EXCEPT !.tables = Append(@, t), !.rows = @ \o x]
    BY DEF dumpBackupTable
  <2>2. dump = [tables |-> dump.tables, rows |-> dump.rows]
    BY DEF RestoreInv, RestoreTyped, Archived
  <2> HIDE DEF x
  <2> QED BY <1>1, <2>1, <2>2
<1>7. Archived(dump)'
  <2> HIDE DEF x
  <2>1. dump.rows \in Seq(BusinessRow)
    BY DEF RestoreInv, RestoreTyped, Archived
  <2>2. dump.rows \o x \in Seq(BusinessRow)
    BY <1>5, <2>1, ConcatProperties
  <2> QED BY <1>6, <2>2 DEF Archived
<1> QED BY <1>1, <1>7 DEF RestoreInv, RestoreTyped, Archived, SequencesAhead, ActsOneTimeline

\* No archive holds no row.
LEMMA NoneArchived == Archived(NoArchive)
BY EmptySeq DEF Archived, NoArchive

\* The steps that pass an archive from one hand to the next.
LEMMA HandOver ==
    ASSUME RestoreInv, NEW a \in Admin,
           \/ ToggleDispatch \/ backupDownload \/ StageExpires(a) \/ restoreApply(a)
           \/ \E same \in BOOLEAN : restorePreflight(a, same)
    PROVE  RestoreInv'
<1>1. UNCHANGED <<rows, seq, epoch, restores>>
  BY DEF ToggleDispatch, backupDownload, StageExpires, restoreApply, restorePreflight
<1>2. RestoreTyped'
  BY <1>1, NoneArchived
  DEF RestoreInv, RestoreTyped, Archived, ToggleDispatch, backupDownload, StageExpires, restoreApply,
      restorePreflight
<1> QED BY <1>1, <1>2 DEF RestoreInv, SequencesAhead, ActsOneTimeline

\* A replay puts every sequence at its table's greatest id and leaves no act of
\* the old instance (replayArchive).
LEMMA ReplayStep ==
    ASSUME RestoreInv, NEW a, Archived(a), replayArchive(a),
           UNCHANGED <<dump, saved>>,
           staged' = [b \in Admin |-> staged'[b]], applying' = [b \in Admin |-> applying'[b]],
           \A b \in Admin : Archived(staged'[b]) /\ Archived(applying'[b])
    PROVE  RestoreInv'
<1> DEFINE kept == {r \in rows : r.table \notin Truncated(a)}
           loaded == MarkReplayed(kept \cup Range(a.rows))
           ids == resyncIdentitySequences(loaded)
           break == Row("act", ids["act"] + 1, {})
<1>1. CASE UNCHANGED <<rows, seq, epoch, restores>>
  BY <1>1 DEF RestoreInv, RestoreTyped, Archived, SequencesAhead, ActsOneTimeline
<1>2. CASE /\ ids["act"] < MaxId
           /\ rows' = loaded \cup {break}
           /\ seq' = [ids EXCEPT !["act"] = @ + 1]
           /\ epoch' = [i \in {r.id : r \in RowsOf(rows', "act")} |->
                           IF i = break.id \/ \E r \in Range(a.rows) : Key(r) = <<"act", i>>
                           THEN restores + 1 ELSE epoch[i]]
           /\ restores' = restores + 1
  <2> HIDE DEF kept
  <2>1. kept \cup Range(a.rows) \in SUBSET BusinessRow /\ IsFiniteSet(kept \cup Range(a.rows))
    <3>1. kept \subseteq rows /\ rows \subseteq BusinessRow /\ IsFiniteSet(kept)
      <4>1. kept \subseteq rows
        BY DEF kept
      <4> QED BY <4>1, FS_Subset DEF RestoreInv, RestoreTyped
    <3>2. Range(a.rows) \subseteq BusinessRow /\ IsFiniteSet(Range(a.rows))
      BY ArchivedRows DEF Archived
    <3> QED BY <3>1, <3>2, FS_Union
  <2>2. /\ loaded \subseteq BusinessRow /\ IsFiniteSet(loaded)
        /\ \A q \in loaded : \E r \in kept \cup Range(a.rows) : Key(q) = Key(r)
    BY <2>1, ReplayedRows
  <2> HIDE DEF loaded
  <2>3. /\ ids = [t \in Used |-> ids[t]] /\ \A t \in Used : ids[t] \in 0..MaxId
        /\ \A r \in loaded : r.id <= ids[r.table]
    BY <2>2, ResyncReadsMax DEF resyncIdentitySequences, BusinessRow
  <2> HIDE DEF ids
  <2>4. break \in BusinessRow /\ break.table = "act" /\ break.id = ids["act"] + 1
    BY <1>2, <2>3, RestoreAssumption DEF Row, BusinessRow
  <2> HIDE DEF break
  <2>5. seq' \in [Used -> Nat] /\ restores' \in Nat
        /\ seq'["act"] = ids["act"] + 1 /\ \A t \in Used : t # "act" => seq'[t] = ids[t]
    BY <1>2, <2>3, RestoreAssumption DEF RestoreInv, RestoreTyped
  <2>6. RestoreTyped'
    <3>1. IsFiniteSet(rows')
      BY <1>2, <2>2, FS_AddElement
    <3> QED BY <1>2, <2>2, <2>4, <2>5, <3>1 DEF RestoreInv, RestoreTyped, Archived
  <2>7. SequencesAhead'
    <3> SUFFICES ASSUME NEW r \in rows' PROVE r.id <= seq'[r.table]
      BY DEF SequencesAhead
    <3>1. CASE r = break
      BY <2>4, <2>5, <2>3, <3>1, RestoreAssumption
    <3>2. CASE r \in loaded
      <4>1. r.table \in Used /\ r.id \in Nat /\ r.id <= ids[r.table] /\ ids[r.table] \in Nat
        BY <2>2, <2>3, <3>2, RestoreAssumption DEF BusinessRow
      <4> QED BY <2>5, <4>1
    <3> QED BY <1>2, <3>1, <3>2
  <2>8. ActsOneTimeline'
    <3> SUFFICES ASSUME NEW i \in DOMAIN epoch' PROVE epoch'[i] = restores'
      BY DEF ActsOneTimeline
    <3>1. PICK r \in rows' : r.table = "act" /\ r.id = i
      BY <1>2 DEF RowsOf
    <3>2. CASE r = break
      BY <1>2, <3>1, <3>2
    <3>3. CASE r \in loaded
      <4>1. PICK q \in kept \cup Range(a.rows) : Key(r) = Key(q)
        BY <2>2, <3>3
      <4>2. q.table = "act" /\ Key(q) = <<"act", i>>
        BY <3>1, <4>1 DEF Key
      <4>3. q \notin kept
        BY <4>2, ActsAreTruncated DEF kept
      <4>4. \E p \in Range(a.rows) : Key(p) = <<"act", i>>
        BY <4>1, <4>2, <4>3
      <4> QED BY <1>2, <4>4
    <3> QED BY <1>2, <3>1, <3>2, <3>3
  <2> QED BY <2>6, <2>7, <2>8 DEF RestoreInv
<1> QED BY <1>1, <1>2 DEF replayArchive

\* The apply replays, or leaves the instance as it was.
LEMMA ApplyStep ==
    ASSUME RestoreInv, NEW a \in Admin, applyRestore(a)
    PROVE  RestoreInv'
<1>1. /\ replayArchive(applying[a]) /\ UNCHANGED <<dump, saved>>
      /\ applying' = [applying EXCEPT ![a] = NoArchive]
      /\ staged' = [staged EXCEPT ![a] = IF verdict' = "restored" THEN NoArchive ELSE @]
  BY DEF applyRestore
<1>2. /\ applying' = [b \in Admin |-> applying'[b]] /\ staged' = [b \in Admin |-> staged'[b]]
      /\ \A b \in Admin : Archived(staged'[b]) /\ Archived(applying'[b])
  BY <1>1, NoneArchived DEF RestoreInv, RestoreTyped
<1>3. Archived(applying[a])
  BY DEF RestoreInv, RestoreTyped
<1> QED BY <1>1, <1>2, <1>3, ReplayStep

\* Every step of a backup, a restore or a handler keeps the invariant.
LEMMA RestoreStep == RestoreInv /\ [RestoreNext]_restoreVars => RestoreInv'
<1> SUFFICES ASSUME RestoreInv, [RestoreNext]_restoreVars PROVE RestoreInv'
  OBVIOUS
<1>1. ASSUME NEW t \in Used, NEW cited \in SUBSET {Key(r) : r \in rows}, InsertRow(t, cited) PROVE RestoreInv'
  BY <1>1, InsertKeeps
<1>2. ASSUME NEW r \in rows, PinProber(r) PROVE RestoreInv'
  BY <1>2, PinStep
<1>3. CASE streamBackup
  BY <1>3, StreamStep
<1>4. ASSUME NEW a \in Admin, applyRestore(a) PROVE RestoreInv'
  BY <1>4, ApplyStep
<1>5. ASSUME NEW a \in Admin, StageExpires(a) \/ restoreApply(a) \/ \E same \in BOOLEAN : restorePreflight(a, same)
      PROVE RestoreInv'
  BY <1>5, HandOver
<1>6. CASE ToggleDispatch \/ backupDownload
  BY <1>6, NoneArchived
  DEF RestoreInv, RestoreTyped, Archived, SequencesAhead, ActsOneTimeline, ToggleDispatch, backupDownload
<1>7. CASE UNCHANGED restoreVars
  BY <1>7 DEF restoreVars, RestoreInv, RestoreTyped, Archived, SequencesAhead, ActsOneTimeline
<1> QED BY <1>1, <1>2, <1>3, <1>4, <1>5, <1>6, <1>7 DEF RestoreNext

\* Nothing of the old instance is left behind by a restore: no sequence falls
\* behind the ids in its table, and the act log is one timeline (applyRestore,
\* resyncIdentitySequencesSQL, truncateTables).
THEOREM RestoreIsWhole == RestoreSpec => []RestoredWhole
<1>1. RestoreInit => RestoreInv
  BY NoneArchived, FS_EmptySet DEF RestoreInit, RestoreInv, RestoreTyped, SequencesAhead, ActsOneTimeline
<1>2. RestoreInv => RestoredWhole
  BY DEF RestoreInv, RestoredWhole
<1> QED BY <1>1, <1>2, RestoreStep, PTL DEF RestoreSpec
===============================================================================
