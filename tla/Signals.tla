------------------------------ MODULE Signals ------------------------------
(***************************************************************************)
(* The release-coupled rules (internal/signal) and the facts they read from *)
(* a subject's open spans (internal/signalfacts).  A rule answers one of    *)
(* four outcomes about one subject; a census partitions the rule's domain   *)
(* by outcome.  Names are sequences of labels, times are days, a redirect's *)
(* location is its parsed scheme and host.                                  *)
(***************************************************************************)
EXTENDS Integers, Sequences, FiniteSets, SequencesExt

CONSTANTS
    ShortValidity,   \* the validity up to which a certificate's horizon is a half
    SensitivePairs   \* the port and transport pairs of verge-core's list

OutsideDomain == "outside-domain"
Fired == "fired"
NotFired == "not-fired"
NotEvaluable == "not-evaluable"
Outcomes == {OutsideDomain, Fired, NotFired, NotEvaluable}

\* A decided answer inside the domain.
Verdict(b) == IF b THEN Fired ELSE NotFired

-----------------------------------------------------------------------------
(* What a certificate's value says.  Absent pointers are {}; present ones    *)
(* are one-element sets.                                                     *)

SelfSignedOf(c) == c.subject = c.issuer /\ c.verifies = {TRUE}

weakKey(c) ==
    \/ c.alg = "RSA" /\ c.bits < 2048
    \/ c.alg = "ECDSA" /\ c.bits < 224
    \/ c.alg = "DSA" /\ (c.bits < 2048 \/ c.n < 224)

\* A self-signed certificate's own digest carries no trust, so it is not weighed.
WeakKeyOrSignature(chain) ==
    \E i \in DOMAIN chain : weakKey(chain[i]) \/ (~SelfSignedOf(chain[i]) /\ chain[i].digest \in {"MD5", "SHA-1"})

\* A wildcard stands for exactly one leftmost label.
sanEntryMatches(entry, name) ==
    /\ entry # <<>> /\ name # <<>> /\ Len(entry) = Len(name)
    /\ IF \E i \in DOMAIN entry : entry[i] = "*"
       THEN entry[1] = "*" /\ Tail(entry) = Tail(name) /\ \A i \in 2..Len(entry) : entry[i] # "*"
       ELSE entry = name
SANMatchesName(sans, name) == \E s \in sans : sanEntryMatches(s, name)

\* Half a short validity or a third of a long one; none where it is not positive.
CertHorizon(nb, na) ==
    IF na <= nb THEN {} ELSE {IF na - nb <= ShortValidity THEN (na - nb) \div 2 ELSE (na - nb) \div 3}

CertDetailsFromValue(v, observed, now, name) ==
    IF v.outcome # "presented" THEN {}
    ELSE {[clock |-> IF v.dated THEN {[nb |-> v.nb, na |-> v.na, observed |-> observed, now |-> now]} ELSE {},
           san   |-> IF v.chain # <<>> /\ name # <<>> THEN {SANMatchesName(v.sans, name)} ELSE {},
           weak  |-> IF v.chain # <<>> THEN {WeakKeyOrSignature(v.chain)} ELSE {},
           self  |-> IF v.chain # <<>> /\ v.chain[1].verifies # {} THEN {SelfSignedOf(v.chain[1])} ELSE {}]}

\* A facet with no open span contributes no evidence: cert and http are sets of
\* at most one value.
EndpointFactsFrom(name, cert, observed, http, now, estate) ==
    LET cs == {CertDetailsFromValue(v, observed, now, name) : v \in cert}
        redirected == \E h \in http : h.responded /\ h.status \in 300..399 /\ h.location # {}
    IN [named    |-> name # <<>>,
        measured |-> cert # {},
        outcome  |-> IF cert = {} THEN "" ELSE (CHOOSE v \in cert : TRUE).outcome,
        details  |-> UNION cs,
        http     |-> {h \in http : h.responded},
        inEstate |-> redirected /\ \E h \in http, l \in UNION {x.location : x \in http} : l.host \in estate]

ParseServicePair(svc) == [port |-> svc.port, transport |-> svc.transport]

ServiceFactsFrom(svc, reach, tls) ==
    [sensitive |-> svc.transport = "tcp" /\ ParseServicePair(svc) \in SensitivePairs,
     reach     |-> reach,
     completed |-> \E t \in tls : t.outcome = "enumerated",
     versions  |-> UNION {t.versions : t \in {u \in tls : u.outcome = "enumerated"}}]

-----------------------------------------------------------------------------
(* The endpoint rules. *)

presentedCert(f) == f.measured /\ f.outcome = "presented"

\* A clock is trusted for one horizon after the certificate was last seen.
ClockRule(f, Read(_, _)) ==
    IF ~presentedCert(f) THEN OutsideDomain
    ELSE LET cs == {c \in UNION {d.clock : d \in f.details} :
                       \E h \in CertHorizon(c.nb, c.na) : c.now - c.observed <= h}
         IN IF cs = {} THEN NotEvaluable
            ELSE Verdict(\E c \in cs : \E h \in CertHorizon(c.nb, c.na) : Read(c, h))

certificateExpired(f) == LET Read(c, h) == c.na <= c.now IN ClockRule(f, Read)
certificateNotYetValid(f) == LET Read(c, h) == c.nb > c.now IN ClockRule(f, Read)
certificateExpiring(f) ==
    LET Read(c, h) == c.na > c.now /\ c.na <= c.now + h IN ClockRule(f, Read)

certDetailRule(f, Pick(_)) ==
    IF ~presentedCert(f) THEN OutsideDomain
    ELSE LET a == UNION {Pick(d) : d \in f.details}
         IN IF a = {} THEN NotEvaluable ELSE Verdict(TRUE \in a)
certificateSelfSigned(f) == LET Pick(d) == d.self IN certDetailRule(f, Pick)
certificateWeakKeyOrSignature(f) == LET Pick(d) == d.weak IN certDetailRule(f, Pick)

certificateHostnameSANMismatch(f) ==
    IF ~presentedCert(f) \/ ~f.named THEN OutsideDomain
    ELSE LET a == UNION {d.san : d \in f.details} IN IF a = {} THEN NotEvaluable ELSE Verdict(FALSE \in a)

plaintextHTTPNoHTTPS(f) ==
    IF f.http = {} THEN OutsideDomain
    ELSE IF ~f.measured THEN NotEvaluable ELSE Verdict(f.outcome = "no-tls")

Redirects(f) == UNION {h.location : h \in {x \in f.http : x.status \in 300..399}}
redirectDoesNotUpgradeToTLS(f) ==
    IF Redirects(f) = {} THEN OutsideDomain ELSE Verdict(\E l \in Redirects(f) : l.scheme # "https")
redirectToHostOutsideEstate(f) ==
    IF Redirects(f) = {} THEN OutsideDomain
    ELSE Verdict((\E l \in Redirects(f) : l.host # "") /\ ~f.inEstate)

\* A 401 or 403 is a challenge; any other status says nothing about authentication.
unauthenticatedRequestAnswered(f) ==
    LET ss == {h.status : h \in f.http} \cap (200..299 \cup {401, 403})
    IN IF ss = {} THEN OutsideDomain ELSE Verdict(ss \cap 200..299 # {})

ClockRules == {"certificate-expired", "certificate-not-yet-valid", "certificate-expiring"}

AllEndpointRules(f) ==
    [r \in ClockRules \cup {"certificate-self-signed", "certificate-weak-key-or-signature",
                           "certificate-hostname-san-mismatch", "plaintext-http-no-https",
                           "redirect-does-not-upgrade-to-tls", "redirect-to-host-outside-estate",
                           "unauthenticated-request-answered"} |->
        CASE r = "certificate-expired" -> certificateExpired(f)
          [] r = "certificate-not-yet-valid" -> certificateNotYetValid(f)
          [] r = "certificate-expiring" -> certificateExpiring(f)
          [] r = "certificate-self-signed" -> certificateSelfSigned(f)
          [] r = "certificate-weak-key-or-signature" -> certificateWeakKeyOrSignature(f)
          [] r = "certificate-hostname-san-mismatch" -> certificateHostnameSANMismatch(f)
          [] r = "plaintext-http-no-https" -> plaintextHTTPNoHTTPS(f)
          [] r = "redirect-does-not-upgrade-to-tls" -> redirectDoesNotUpgradeToTLS(f)
          [] r = "redirect-to-host-outside-estate" -> redirectToHostOutsideEstate(f)
          [] r = "unauthenticated-request-answered" -> unauthenticatedRequestAnswered(f)]

-----------------------------------------------------------------------------
(* The service rules. *)

tls10Accepted(f) ==
    IF ~f.completed THEN OutsideDomain
    ELSE IF f.versions = {} THEN NotEvaluable ELSE Verdict("1.0" \in f.versions)

SensitivePort == "sensitive-port-reached-from-internet"
sensitivePortReachedFromInternet(f) ==
    IF ~f.sensitive THEN OutsideDomain
    ELSE IF f.reach = {} THEN NotEvaluable ELSE Verdict("reached" \in f.reach)

AllServiceRules(f) ==
    [r \in {"tls-1.0-accepted", SensitivePort} |->
        IF r = SensitivePort THEN sensitivePortReachedFromInternet(f) ELSE tls10Accepted(f)]

-----------------------------------------------------------------------------
(* The name rules, and the zone file they compare an answer with. *)

\* A zone file's lines, in order: an $ORIGIN directive, a record that names its
\* owner, or a record that starts blank and inherits the last owner.
qualify(l, origin) ==
    CASE l.at -> origin [] ~l.at /\ l.absolute -> l.name [] OTHER -> l.name \o origin

walkOwners(lines, origin) ==
    LET step(st, l) ==
            IF l.kind = "origin" THEN [st EXCEPT !.origin = qualify(l, st.origin)]
            ELSE LET owner == IF l.kind = "blank" THEN st.last ELSE qualify(l, st.origin)
                 IN [st EXCEPT !.last = owner,
                               !.seen = IF owner = <<>> \/ Head(owner) = "*" THEN @
                                        ELSE @ \cup {[owner |-> owner, type |-> l.type]}]
    IN FoldLeft(step, [origin |-> origin, last |-> <<>>, seen |-> {}], lines).seen

DeclaredNames(lines, origin) == {r.owner : r \in walkOwners(lines, origin)}
DelegatedSubzones(lines, origin) ==
    {r.owner : r \in {x \in walkOwners(lines, origin) : x.owner # origin /\ x.type = "NS"}}

lameDelegation(f) ==
    IF ~f.inEstate THEN OutsideDomain
    ELSE IF f.resolution \in {"Shadowed", "Gap", "NotEvaluable"} THEN NotEvaluable
    ELSE Verdict(f.resolution = "Lame")

cnameTargetNameError(f) ==
    IF ~f.cname THEN OutsideDomain
    ELSE IF f.resolution \in {"Shadowed", "NotEvaluable"} \/ f.target \in {"", "Gap", "Shadowed", "NotEvaluable"}
    THEN NotEvaluable ELSE Verdict(f.target = "NameError")

zoneDeclaredNameReturnsNameError(f) ==
    IF ~f.declared THEN OutsideDomain
    ELSE IF f.resolution \in {"Lame", "Shadowed", "Gap", "NotEvaluable"} THEN NotEvaluable
    ELSE Verdict(f.resolution = "NameError")

resolvedNameAbsentFromZone(f) ==
    IF ~f.inZone \/ f.resolution \notin {"Resolved", "Shadowed", "NotEvaluable"} THEN OutsideDomain
    ELSE IF f.resolution # "Resolved" \/ f.delegated THEN NotEvaluable
    ELSE Verdict(~f.declared)

\* The most specific registry block that holds the address decides.
specialPurposeFires(addr, blocks) ==
    LET hs == {b \in blocks : IsPrefix(b.prefix, addr)}
    IN \E b \in hs : b.fires /\ \A c \in hs : Len(c.prefix) <= Len(b.prefix)

nonGloballyReachableFromInternet(f, blocks) ==
    IF ~f.internet THEN NotEvaluable
    ELSE IF f.seen \notin {"Resolved", "Shadowed"} THEN OutsideDomain
    ELSE IF f.seen = "Shadowed" THEN NotEvaluable
    ELSE Verdict(\E a \in f.addresses : specialPurposeFires(a, blocks))

All(f, blocks) ==
    [r \in {"lame-delegation", "cname-target-name-error", "zone-declared-name-returns-name-error",
            "resolved-name-absent-from-zone", "non-globally-reachable-address-resolved-from-internet"} |->
        CASE r = "lame-delegation" -> lameDelegation(f)
          [] r = "cname-target-name-error" -> cnameTargetNameError(f)
          [] r = "zone-declared-name-returns-name-error" -> zoneDeclaredNameReturnsNameError(f)
          [] r = "resolved-name-absent-from-zone" -> resolvedNameAbsentFromZone(f)
          [] OTHER -> nonGloballyReachableFromInternet(f, blocks)]

-----------------------------------------------------------------------------
SeverityFor(rule) ==
    CASE rule \in {"certificate-expired", SensitivePort} -> "critical"
      [] rule \in {"certificate-not-yet-valid", "certificate-weak-key-or-signature", "cname-target-name-error",
                   "certificate-hostname-san-mismatch", "unauthenticated-request-answered"} -> "high"
      [] rule \in {"redirect-does-not-upgrade-to-tls", "resolved-name-absent-from-zone"} -> "low"
      [] OTHER -> "medium"
=============================================================================
