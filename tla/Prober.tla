------------------------------- MODULE Prober -------------------------------
(***************************************************************************)
(* One prober process running one job of the hot, cold, http-identity,     *)
(* tls-acceptance or edge-fanout scan (internal/scan builds the job,       *)
(* internal/measure runs it).  The job is one sequential program; what is  *)
(* hard about it is the world it meets: attempts that are lost, hosts that *)
(* answer on every port, listeners that go silent half way through an      *)
(* enumeration, and a rate that must hold across connects, control ports   *)
(* and handshakes while the process itself is scheduled late.              *)
(***************************************************************************)
EXTENDS Naturals, Sequences, FiniteSets, SequencesExt

CONSTANTS Hosts, Ports, ControlPorts,   \* sets of numbers; ControlPorts are drawn
          Names,                        \* endpoint names; {""} is the nameless one
          Retries, ControlPortRetries,
          Second, PerHost, PerVantage,  \* a second in ticks, connects per second
          HandshakesPerSec, RequestsPerSec,
          Versions, Ciphers,            \* the declared TLS offer, sequences
          EdgeChunk,                    \* addresses per edge-fanout job
          MaxSlip, MaxClock

\* Numbers throughout, and control ports that could be drawn.
ASSUME ProberAssumption ==
    /\ \A S \in {Hosts, Ports, ControlPorts} : IsFiniteSet(S) /\ S \subseteq Nat
    /\ Ports \cap ControlPorts = {} /\ ControlPorts # {}
    /\ Versions \in Seq(STRING) /\ Versions # <<>> /\ Second \in Nat
    /\ \A r \in {PerHost, PerVantage, HandshakesPerSec, RequestsPerSec} :
          r \in Nat /\ r > 0 /\ r <= Second

VARIABLES world,   \* the hosts: which answer on all ports, what is open, what TLS they accept
          job,     \* the job the worker handed this process
          run,     \* where the process is in it
          pacer,   \* Pacer: the last due instants and the rate of each host
          clock, dues,   \* now, and the history of due instants
          obs      \* the observations the process will write

probeVars == <<world, job, run, pacer, clock, dues, obs>>

Classes == {"internet", "inside"}
ColdPorts == Ports \cup ControlPorts

-----------------------------------------------------------------------------
(* The builders (internal/scan).  An estate is the set of host and class   *)
(* pairs custody lets us probe; the class is the one derived at dispatch.  *)

ProbeRealm(estate, h, class) == <<h, class>> \in estate

HotJob(h, class) == [kind |-> "connect", class |-> class, hosts |-> {h}, ports |-> Ports,
                     names |-> Names, targets |-> {<<h, p>> : p \in Ports}]

BuildHotJobs(estate) ==
    {HotJob(x[1], x[2]) : x \in {y \in Hosts \X Classes : ProbeRealm(estate, y[1], y[2])}}

\* The opt-in widens the tier and never moves an address past the gate.
BuildColdJobs(estate, optedIn) ==
    {[HotJob(x[1], x[2]) EXCEPT !.ports = ColdPorts,
                                !.targets = {<<x[1], p>> : p \in ColdPorts}] :
        x \in {y \in Hosts \X Classes : y[1] \in optedIn /\ ProbeRealm(estate, y[1], y[2])}}

\* A reached service is a stale snapshot: the gate runs again on the live estate.
StillOurs(estate, class, reached) == {s \in reached : ProbeRealm(estate, s[1], class)}

ServiceJob(kind, class, targets) ==
    [kind |-> kind, class |-> class, hosts |-> {t[1] : t \in targets},
     ports |-> {}, names |-> {""}, targets |-> targets]

BuildHTTPIdentityJobs(estate, reached) ==
    {ServiceJob("http", c, StillOurs(estate, c, reached)) :
        c \in {d \in Classes : StillOurs(estate, d, reached) # {}}}

BuildTLSAcceptanceJobs(estate, reached) ==
    {ServiceJob("tls", c, StillOurs(estate, c, reached)) :
        c \in {d \in Classes : StillOurs(estate, d, reached) # {}}}

\* Chunks of at most EdgeChunk addresses in order; the last may be short.
BuildEdgeFanoutJobs(population) ==
    LET all == SetToSortSeq(population, <)
        chunks == {i \in 1..Len(all) : (i - 1) % EdgeChunk = 0}
    IN  {ServiceJob("edge", "internet",
            {<<all[j], 443>> : j \in {k \in i..Len(all) : k < i + EdgeChunk}}) : i \in chunks}

-----------------------------------------------------------------------------
(* Pacing.                                                                 *)

Max2(a, b) == IF a > b THEN a ELSE b

\* A host's rate starts at PerHost; a stress signal shifts it right by one, and
\* never under one a second.
Interval(rate) == Second \div rate

Signal(p, h) == IF p.rate[h] > 1 THEN [p EXCEPT !.rate[h] = @ \div 2] ELSE p

\* The instant the next connect may start, and the pacer that granted it.
Next(p, h, now) ==
    LET agg == IF p.lastAggregate = 0 THEN now
               ELSE Max2(now, p.lastAggregate + Second \div PerVantage)
        due == IF p.lastHost[h] = 0 THEN agg
               ELSE Max2(agg, p.lastHost[h] + Interval(p.rate[h]))
    IN  [due |-> due, pacer |-> [p EXCEPT !.lastAggregate = due, !.lastHost[h] = due]]

\* The acceptance and identity leaves have a per-host arm only.
NextPlain(p, h, now, rate) ==
    LET due == IF p.lastHost[h] = 0 THEN now ELSE Max2(now, p.lastHost[h] + Second \div rate)
    IN  [due |-> due, pacer |-> [p EXCEPT !.lastHost[h] = due]]

\* The gate in front of every connect and handshake: wait for the due instant,
\* and start up to MaxSlip late.  A timed-out attempt is a stress signal.
Paced(grant, h, timedOut) ==
    /\ pacer' = IF timedOut THEN Signal(grant.pacer, h) ELSE grant.pacer
    /\ dues' = Append(dues, [host |-> h, at |-> grant.due])
    /\ \E slip \in 0..MaxSlip : clock' = grant.due + slip
    /\ clock' <= MaxClock

-----------------------------------------------------------------------------
(* Connects and the blanket verdict.                                       *)

\* What a connect may meet: a lost attempt looks like a filtered port.
Connect(h, p) ==
    {"timed-out", "error"}
      \cup (IF h \in world.blanket \/ <<h, p>> \in world.open THEN {"open"} ELSE {"refused"})

Decided(r) == r \in {"open", "refused"}
Outcome(r) == IF r = "open" THEN "reached" ELSE "not-reached"

controlResultOf(r) ==
    CASE r = "open" -> "answered" [] r = "refused" -> "closed" [] OTHER -> "incomplete"

\* Mutant: a control port that could not be probed counts as one that is closed.
BlanketDecide_SilenceClosed(results) ==
    IF results = {} \/ results \cap {"closed", "incomplete"} # {} THEN "NotBlanket" ELSE "Blanket"

BlanketDecide(results) ==
    CASE results = {} \/ "closed" \in results -> "NotBlanket"
      [] results = {"answered"} -> "Blanket"
      [] OTHER -> "Gap"

Gaps(v) == v \in {"Blanket", "Gap"}

\* The elements of S in a strict order of them, given as the pairs it holds of.
Sorted(S, order) ==
    [n \in 1..Cardinality(S) |-> CHOOSE t \in S : Cardinality({u \in S : <<u, t>> \in order}) = n - 1]

\* One port of every host, then the next port of every host.
Round(t, targets) == Cardinality({u \in targets : u[1] = t[1] /\ u[2] < t[2]})
ByRound(targets) ==
    {x \in targets \X targets : \/ Round(x[1], targets) < Round(x[2], targets)
                                 \/ (Round(x[1], targets) = Round(x[2], targets) /\ x[1][1] < x[2][1])}
RoundRobin(targets) == Sorted(targets, ByRound(targets))

ByHost(targets) ==
    {x \in targets \X targets : x[1][1] < x[2][1] \/ (x[1][1] = x[2][1] /\ x[1][2] < x[2][2])}
ControlTargets(j) == Sorted(j.hosts \X ControlPorts, ByHost(j.hosts \X ControlPorts))

\* The next service the walk of targets stops at, emitting a gap for each
\* service of a blanketed host on the way.
NextService(i, verdicts) ==
    LET all == RoundRobin(job.targets)
        live == {k \in i..Len(all) : ~Gaps(verdicts[all[k][1]])}
    IN  IF live = {} THEN Len(all) + 1 ELSE CHOOSE k \in live : \A l \in live : k <= l

Observation(facet, target, value) == [facet |-> facet, target |-> target, value |-> value]

GapsBetween(i, k) ==
    {Observation("reachability", RoundRobin(job.targets)[n], "gap") : n \in i..(k - 1)}

-----------------------------------------------------------------------------
(* Handshakes.                                                             *)

\* A dial that fails in the connect phase is unreachable; a peer that answers
\* in TLS refused; any other failure asserts no refusal.
classifyDialError(failure) ==
    CASE failure = "dial" -> [outcome |-> "no-tls", unreachable |-> TRUE]
      [] failure = "alert" -> [outcome |-> "tls-refused", unreachable |-> FALSE]
      [] OTHER -> [outcome |-> "no-tls", unreachable |-> FALSE]

Speaks(h) == world.tls[h] # {}

\* A completed handshake with no certificate is a refusal.
Handshake(h) ==
    {classifyDialError("dial")}
      \cup (IF Speaks(h)
            THEN {[outcome |-> "presented", unreachable |-> FALSE],
                  classifyDialError("alert")}
            ELSE {classifyDialError("eof")})

\* edgefanout: unreachable is read before the TLS negatives.
EdgeFold(r) == CASE r.outcome = "presented" -> "presented"
                 [] r.outcome # "presented" /\ r.unreachable -> "unreachable"
                 [] OTHER -> r.outcome

\* No valid HTTP response is a determinate negative.
Identity(failed) == IF failed THEN "no-http-response" ELSE "responded"

\* The listener picks its own favourite of the suites offered, whatever their
\* order in the offer; 1.3 names none.
Accepts(h, ver, offered) ==
    LET shared == offered \cap world.suites
    IN CASE ver \notin world.tls[h] -> {}
         [] ver \in world.tls[h] /\ ver = "1.3" -> {"1.3"}
         [] OTHER -> {c \in shared : c = CHOOSE d \in shared : TRUE}

Attempt(spoke, accepted) == [spoke |-> spoke, accepted |-> accepted]

\* A lost handshake is an attempt in which nobody spoke.
Attempts(h, ver, offered) ==
    {Attempt(FALSE, {}), Attempt(Speaks(h), Accepts(h, ver, offered))}

\* The selected suite leaves the next round's offer.
Narrow(remaining, selected) == remaining \ selected

acceptanceValue(e) ==
    CASE e.accepted # {} -> "enumerated"
      [] e.accepted = {} /\ e.spoke -> "tls-refused"
      [] OTHER -> "no-tls"

-----------------------------------------------------------------------------

FreshEnum == [ver |-> 1, remaining |-> Ciphers, accepted |-> {}, spoke |-> FALSE, lost |-> FALSE]

AllJobs(estate, optedIn, reached) ==
    UNION {BuildHotJobs(estate), BuildColdJobs(estate, optedIn),
           BuildHTTPIdentityJobs(estate, reached), BuildTLSAcceptanceJobs(estate, reached),
           BuildEdgeFanoutJobs({x[1] : x \in estate})}

ProbeInit ==
    /\ \E blanket \in SUBSET Hosts, open \in SUBSET (Hosts \X Ports),
          tls \in [Hosts -> SUBSET {Versions[i] : i \in 1..Len(Versions)}],
          suites \in SUBSET Ciphers :
          world = [blanket |-> blanket, open |-> open, tls |-> tls, suites |-> suites]
    /\ \E inside \in {{}, Hosts} :
          job \in AllJobs((Hosts \X {"internet"}) \cup (inside \X {"inside"}), {}, world.open)
                   \cup BuildColdJobs(Hosts \X {"internet"}, {CHOOSE h \in Hosts : TRUE})
    /\ run = [phase |-> IF job.kind = "connect" THEN "control" ELSE job.kind,
              at |-> 1, tries |-> 0, results |-> [h \in Hosts |-> {}],
              names |-> {}, enum |-> FreshEnum]
    /\ pacer = [lastAggregate |-> 0, lastHost |-> [h \in Hosts |-> 0],
                rate |-> [h \in Hosts |-> PerHost]]
    /\ clock = 1 /\ dues = <<>> /\ obs = {}

Verdicts(results) == [h \in Hosts |-> BlanketDecide(results[h])]

\* discriminateBlanket: the same ports are tried on every host of the job.
ProbeControlPort ==
    /\ run.phase = "control" /\ run.at <= Len(ControlTargets(job))
    /\ LET t == ControlTargets(job)[run.at]
       IN  \E r \in Connect(t[1], t[2]) :
              /\ Paced(Next(pacer, t[1], clock), t[1], r = "timed-out")
              /\ run' = IF ~Decided(r) /\ run.tries < ControlPortRetries
                        THEN [run EXCEPT !.tries = @ + 1]
                        ELSE [run EXCEPT !.at = @ + 1, !.tries = 0,
                                         !.results[t[1]] = @ \cup {controlResultOf(r)}]
    /\ UNCHANGED <<world, job, obs>>

\* The verdicts are in: gaps for the blanketed hosts, probes for the others.
ControlsRead ==
    /\ run.phase = "control" /\ run.at > Len(ControlTargets(job))
    /\ LET k == NextService(1, Verdicts(run.results))
       IN  /\ obs' = GapsBetween(1, k)
           /\ run' = [run EXCEPT !.phase = "probe", !.at = k]
    /\ UNCHANGED <<world, job, pacer, clock, dues>>

\* One connect to a service port: tried again, or decided and emitted.
ProbeService ==
    /\ run.phase = "probe" /\ run.at <= Len(RoundRobin(job.targets)) /\ run.names = {}
    /\ LET t == RoundRobin(job.targets)[run.at]
           k == NextService(run.at + 1, Verdicts(run.results))
       IN  \E r \in Connect(t[1], t[2]) :
              /\ Paced(Next(pacer, t[1], clock), t[1], r = "timed-out")
              /\ IF ~Decided(r) /\ run.tries < Retries
                 THEN run' = [run EXCEPT !.tries = @ + 1] /\ UNCHANGED obs
                 ELSE /\ obs' = obs \cup {Observation("reachability", t, Outcome(r))}
                                    \cup (IF r = "open" THEN {} ELSE GapsBetween(run.at + 1, k))
                      /\ run' = [run EXCEPT !.tries = 0,
                                   !.names = IF r = "open" THEN job.names ELSE {},
                                   !.at = IF r = "open" THEN @ ELSE k]
    /\ UNCHANGED <<world, job>>

\* A reached service is handshaken once for each endpoint name.
ProbeCertificate ==
    /\ run.phase = "probe" /\ run.names # {}
    /\ LET t == RoundRobin(job.targets)[run.at]
           k == NextService(run.at + 1, Verdicts(run.results))
       IN  \E n \in run.names, r \in Handshake(t[1]), timedOut \in BOOLEAN :
              /\ timedOut => r.unreachable
              /\ Paced(Next(pacer, t[1], clock), t[1], timedOut)
              /\ obs' = obs \cup {Observation("certificate", <<n, t>>, r.outcome)}
                            \cup (IF run.names = {n} THEN GapsBetween(run.at + 1, k) ELSE {})
              /\ run' = [run EXCEPT !.names = @ \ {n}, !.at = IF run.names = {n} THEN k ELSE @]
    /\ UNCHANGED <<world, job>>

NextTarget == run' = [run EXCEPT !.at = @ + 1, !.enum = FreshEnum]
Target(i) == RoundRobin(job.targets)[i]

\* One request per target, redirects not followed.
ExchangeHTTP ==
    /\ run.phase = "http" /\ run.at <= Cardinality(job.targets)
    /\ LET t == Target(run.at)
       IN  \E failed \in BOOLEAN :
              /\ Paced(NextPlain(pacer, t[1], clock, RequestsPerSec), t[1], FALSE)
              /\ obs' = obs \cup {Observation("http-identity", t, Identity(failed))}
              /\ NextTarget
    /\ UNCHANGED <<world, job>>

\* One no-SNI handshake per edge address, unpaced.
HandshakeEdge ==
    /\ run.phase = "edge" /\ run.at <= Cardinality(job.targets)
    /\ LET t == Target(run.at)
       IN  \E r \in Handshake(t[1]) :
              obs' = obs \cup {Observation("edge", t, EdgeFold(r))}
    /\ NextTarget
    /\ UNCHANGED <<world, job, pacer, clock, dues>>

\* One handshake of an enumeration: the suite it selects leaves the offer, and
\* the round that accepts nothing ends the version.
EnumerateTLS ==
    /\ run.phase = "tls" /\ run.at <= Cardinality(job.targets)
    /\ LET t == Target(run.at)
           e == run.enum
           ver == Versions[e.ver]
       IN  \E a \in Attempts(t[1], ver, e.remaining) :
              LET left == IF ver = "1.3" \/ a.accepted = {} THEN {}
                          ELSE Narrow(e.remaining, a.accepted)
                  got == {<<ver, c>> : c \in a.accepted}
                  next == [e EXCEPT !.spoke = @ \/ a.spoke, !.accepted = @ \cup got,
                                    !.lost = @ \/ (a # Attempt(Speaks(t[1]), Accepts(t[1], ver, e.remaining))),
                                    !.remaining = IF left = {} THEN Ciphers ELSE left,
                                    !.ver = IF left = {} THEN @ + 1 ELSE @]
              IN  /\ Paced(NextPlain(pacer, t[1], clock, HandshakesPerSec), t[1], FALSE)
                  /\ IF next.ver > Len(Versions)
                     THEN /\ obs' = obs \cup {Observation("tls-acceptance", t,
                                       [outcome |-> acceptanceValue(next),
                                        accepted |-> next.accepted, lost |-> next.lost])}
                          /\ NextTarget
                     ELSE run' = [run EXCEPT !.enum = next] /\ UNCHANGED obs
    /\ UNCHANGED <<world, job>>

ProbeNext == \/ ProbeControlPort \/ ControlsRead \/ ProbeService \/ ProbeCertificate
             \/ ExchangeHTTP \/ HandshakeEdge \/ EnumerateTLS

ProbeSpec == ProbeInit /\ [][ProbeNext]_probeVars

-----------------------------------------------------------------------------
(* Properties.                                                             *)

\* A service is reported reached, and a certificate read from it, only where a
\* port is really open on a host that does not answer on every port, whichever
\* control and service attempts were lost (blanketdiscrim Decide, RunExchange).
ReachWitnessed ==
    \A o \in obs :
       /\ o.facet = "reachability" /\ o.value = "reached" =>
             o.target \in world.open /\ o.target[1] \notin world.blanket
       /\ o.facet = "certificate" => o.target[2] \in world.open

\* However late the process is scheduled, it is granted at most PerHost starts
\* on a host and PerVantage starts in all within any second, control ports,
\* retries and handshakes together (safety.go Pacer, run.go pacedPair).
RateKept ==
    LET within(i) == {k \in 1..Len(dues) : dues[k].at >= dues[i].at /\ dues[k].at < dues[i].at + Second}
    IN  job.kind = "connect" =>
          \A i \in 1..Len(dues) :
             /\ Cardinality(within(i)) <= PerVantage
             /\ \A h \in Hosts : Cardinality({k \in within(i) : dues[k].host = h}) <= PerHost

\* An enumeration lists only what the listener accepts, lists all of it unless a
\* handshake was lost, and says refused only of a listener that speaks TLS
\* (tlsacceptance Enumerate).
AcceptanceHonest ==
    \A o \in obs : o.facet = "tls-acceptance" =>
       LET h == o.target[1]
           truth == UNION {IF v = "1.3" THEN {<<v, v>>} ELSE {v} \X world.suites : v \in world.tls[h]}
       IN  /\ o.value.accepted \subseteq truth
           /\ ~o.value.lost => o.value.accepted = truth
           /\ o.value.outcome = "tls-refused" => Speaks(h)

\* A probe states what it witnessed and keeps to the rate it was granted.
ProbesHonest == ReachWitnessed /\ RateKept /\ AcceptanceHonest
=============================================================================
