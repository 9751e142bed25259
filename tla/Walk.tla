-------------------------------- MODULE Walk --------------------------------
(***************************************************************************)
(* One prober process running a resolution-walk batch, and its sibling     *)
(* wildcard-discrimination batch (internal/measure/resolutionwalk and      *)
(* internal/measure/wildcarddiscrim).  For each name the prober asks the   *)
(* declared resolver every qtype it offers, one exchange at a time, then   *)
(* asks the name's authorities; the answers are folded into one resolution *)
(* and one delegation.  Every exchange may be lost, refused, truncated or  *)
(* garbled on the way; the resolver never lies about the zone.             *)
(***************************************************************************)
EXTENDS Naturals, Sequences, FiniteSets

CONSTANTS WalkNames,         \* the batch's scope, a sequence
          Qtypes,        \* the offered qtypes, a sequence; "A" is asked first
          Servers,       \* the authorities the zone's NS records name
          Private,       \* the authorities that resolve to an address we refuse
          UDPAttempts, TCPAttempts,
          Labels,        \* the control labels of a wildcard probe
          Kinds          \* the batch kinds of this instance

ASSUME WalkAssumption ==
    /\ UDPAttempts \in Nat /\ TCPAttempts \in Nat
    /\ Private \subseteq Servers
    /\ Len(Qtypes) > 0 /\ Len(WalkNames) > 0
    /\ Qtypes \in Seq(STRING) /\ Qtypes[1] = "A"
    /\ WalkNames \in Seq({WalkNames[i] : i \in DOMAIN WalkNames})
    /\ Labels # {}

VARIABLES zone,   \* what the zone really holds: [name -> truth], and its wildcard
          batch,  \* the prober's position in the batch
          acc,    \* what the qtypes of the current name have said so far
          out     \* the results emitted by the batch, written only at its end

walkVars == <<zone, batch, acc, out>>

Truths == {"here", "empty", "gone", "dangling", "synth"}
Wildcards == {"none", "fixed", "rotating"}

RR(t, d) == [type |-> t, data |-> d]

-----------------------------------------------------------------------------
(* The resolver and the network between, which are not this program's.     *)

\* A fixed wildcard synthesises one address for every label, a rotating one
\* either of two.
Synthesised(wildcard) ==
    CASE wildcard = "none" -> {{}}
      [] wildcard = "fixed" -> {{RR("A", "w1")}}
      [] OTHER -> {{RR("A", "w1")}, {RR("A", "w2")}}

Raw(rcode, answer) == [rcode |-> rcode, tc |-> FALSE, answer |-> answer]

TrueReplies(q) ==
    LET t == zone.of[q.name]
    IN  IF q.server # "" THEN {Raw("NOERROR", {}), Raw("REFUSED", {})}
        ELSE CASE t = "gone" -> {Raw("NXDOMAIN", {})}
               [] t = "dangling" -> {Raw("NXDOMAIN", {RR("CNAME", "elsewhere")})}
               [] q.qtype = "A" /\ t = "here" -> {Raw("NOERROR", {RR("A", "a1")})}
               [] q.qtype = "A" /\ t = "synth" ->
                     {Raw("NOERROR", s) : s \in Synthesised(zone.wildcard)}
               [] q.qtype = "NS" /\ t = "here" ->
                     {Raw("NOERROR", {RR("NS", s) : s \in Servers})}
               [] OTHER -> {Raw("NOERROR", {})}

Replies(q) ==
    TrueReplies(q)
      \cup {[rcode |-> "NOERROR", tc |-> TRUE, answer |-> {}], Raw("SERVFAIL", {})}
      \cup (IF q.edns THEN {Raw("FORMERR", {})} ELSE {})

-----------------------------------------------------------------------------
(* One exchange (netpeer.go).                                              *)

Msg == [reached |-> FALSE, rcode |-> "", truncated |-> FALSE,
        unreachable |-> FALSE, answer |-> {}]

Unreachable == [reached |-> FALSE, rcode |-> "", truncated |-> FALSE,
                unreachable |-> TRUE, answer |-> {}]

\* A reply that cannot be parsed is neither reached nor unreachable.
parseResponse(raw) ==
    [reached |-> TRUE, rcode |-> raw.rcode, truncated |-> raw.tc,
     unreachable |-> FALSE, answer |-> raw.answer]

\* An authority that resolves to an address we do not dial is not asked at all.
walkServerReachable(server) == server \notin Private

dialsDeclaredResolver(q) == q.path = "declared" \/ q.server = ""

\* A first BADCOOKIE is answered with the server's cookie; a second one is
\* parsed like any reply, and its header's code is none the leaf branches on.
NetPeerExchange(q) ==
    IF ~dialsDeclaredResolver(q) /\ ~walkServerReachable(q.server) THEN {Unreachable}
    ELSE {Unreachable, Msg}
           \cup {parseResponse(raw) : raw \in Replies(q)}
           \cup (IF q.edns THEN {parseResponse(Raw("OTHER", {}))} ELSE {})

-----------------------------------------------------------------------------
(* The attempt budget (leaf.go Exchange): UDP attempts, then TCP.          *)

Query(path, server, name, qtype) ==
    [path |-> path, server |-> server, name |-> name, qtype |-> qtype,
     transport |-> "UDP", edns |-> TRUE, tries |-> 0, leg |-> "first"]

Budget(q) == LET n == IF q.transport = "TCP" THEN TCPAttempts ELSE UDPAttempts
             IN  IF n < 1 THEN 1 ELSE n

Spent(q) == /\ q.tries + 1 >= Budget(q)
            /\ q.transport = "TCP" \/ TCPAttempts < 1

NextAttempt(q) ==
    IF q.tries + 1 < Budget(q) THEN [q EXCEPT !.tries = @ + 1]
    ELSE [q EXCEPT !.transport = "TCP", !.tries = 0]

-----------------------------------------------------------------------------
(* The declared resolver's answers, folded qtype by qtype (leaf.go).       *)

NoAnswers == [addrs |-> {}, nxAll |-> TRUE, anyReached |-> FALSE, anyNoError |-> FALSE,
              sawCNAME |-> FALSE, records |-> {}, silent |-> {}]

\* exchangeDeclared asks again without EDNS after a FORMERR and over TCP after
\* a truncated answer; each retry is made once.
AsksPlain(q, m) == m.reached /\ m.rcode = "FORMERR" /\ q.leg = "first"
AsksOverTCP(q, m) == m.reached /\ m.truncated /\ TCPAttempts > 0 /\ q.leg # "tcp"

\* Whether the last message of a qtype is an answer at all.
Answered(q, m) == /\ m.reached
                  /\ ~(q.leg = "tcp" /\ m.truncated)
                  /\ ~(m.rcode = "SERVFAIL" /\ m.answer = {})

\* Mutant: a query that got no answer is taken for a negative one.
Absorb_SilenceIsNXDOMAIN(a, q, m) ==
    IF ~Answered(q, m)
    THEN [a EXCEPT !.silent = @ \cup {q.qtype}, !.anyReached = TRUE]
    ELSE [a EXCEPT
            !.silent = IF m.rcode \in {"NOERROR", "NXDOMAIN"} THEN @ ELSE @ \cup {q.qtype},
            !.anyReached = TRUE,
            !.nxAll = @ /\ m.rcode = "NXDOMAIN",
            !.anyNoError = @ \/ m.rcode = "NOERROR",
            !.addrs = @ \cup {r.data : r \in {x \in m.answer : x.type \in {"A", "AAAA"}}},
            !.sawCNAME = @ \/ \E r \in m.answer : r.type = "CNAME",
            !.records = @ \cup {[asked |-> q.qtype, rr |-> r] : r \in m.answer}]

\* What one qtype's settled message adds to the name's reading; `silent` is a
\* history of the qtypes that got neither an answer nor a denial.
Absorb(a, q, m) ==
    IF ~Answered(q, m) THEN [a EXCEPT !.silent = @ \cup {q.qtype}]
    ELSE [a EXCEPT
            !.silent = IF m.rcode \in {"NOERROR", "NXDOMAIN"} THEN @ ELSE @ \cup {q.qtype},
            !.anyReached = TRUE,
            !.nxAll = @ /\ m.rcode = "NXDOMAIN",
            !.anyNoError = @ \/ m.rcode = "NOERROR",
            !.addrs = @ \cup {r.data : r \in {x \in m.answer : x.type \in {"A", "AAAA"}}},
            !.sawCNAME = @ \/ \E r \in m.answer : r.type = "CNAME",
            !.records = @ \cup {[asked |-> q.qtype, rr |-> r] : r \in m.answer}]

decideResolution(a) ==
    CASE a.addrs # {} -> "Resolved"
      [] a.addrs = {} /\ ~a.anyReached -> "Gap"
      [] a.addrs = {} /\ a.anyReached /\ a.nxAll ->
            IF a.sawCNAME THEN "NoData" ELSE "NameError"
      [] OTHER -> IF a.anyNoError THEN "NoData" ELSE "Gap"

\* The delegation the authorities' own answers decide (leaf.go walk).
Delegation(statuses) ==
    LET reached == {s \in statuses : s.reached}
    IN  CASE statuses = {} -> "none"
          [] statuses # {} /\ reached = {} -> "gap"
          [] reached # {} /\ \A s \in reached : ~s.serves -> "lame"
          [] OTHER -> "serves"

Status(q, m) == [server |-> q.server, reached |-> m.reached,
                 serves |-> m.reached /\ m.rcode \notin {"REFUSED", "SERVFAIL"}]

-----------------------------------------------------------------------------
(* Wildcard discrimination over the answers of the control labels.         *)

\* Every label sits under the one parent of this instance; [label -> RRs of A].
signatureOf(sets) ==
    CASE \A l \in Labels : sets[l] = {} -> "NoSynthesis"
      [] \A l, k \in Labels : sets[l] = sets[k] /\ sets[l] # {} -> "Determinate"
      [] OTHER -> "Indeterminate"

wildcardMeasured(control) == \E l \in Labels : control.sets[l] # {}

\* The components: what was asked, and the type that answered.
Component(records, asked, type) ==
    {x.rr.data : x \in {y \in records : y.asked = asked /\ y.rr.type = type}}

differsAtDeterminate(records, control) ==
    LET sig == signatureOf(control.sets)
        mine == Component(records, "A", "A")
        theirs == UNION {{r.data : r \in control.sets[l]} : l \in Labels}
    IN  \/ \E x \in records : <<x.asked, x.rr.type>> # <<"A", "A">>
        \/ sig = "NoSynthesis" /\ mine # {}
        \/ sig = "Determinate" /\ mine # theirs

Discriminate(records, control) ==
    CASE ~control.complete -> "Gap"
      [] control.complete /\ ~wildcardMeasured(control) -> "NotShadowed"
      [] OTHER -> IF differsAtDeterminate(records, control) THEN "NotShadowed" ELSE "Shadowed"

NoControl == [complete |-> FALSE, sets |-> [l \in Labels |-> {}]]

\* A label that was not reached contributes no RR and leaves the set unread.
ControlAnswers ==
    {[complete |-> heard = Labels,
      sets |-> [l \in Labels |-> IF l \in heard THEN s[l] ELSE {}]] :
        heard \in SUBSET Labels, s \in [Labels -> Synthesised(zone.wildcard)]}

\* What a batch of either kind emits for a name.
resolutionFor(result, verdict) ==
    CASE verdict = "Shadowed" -> "Shadowed"
      [] verdict = "Gap" -> "Gap"
      [] OTHER -> result

-----------------------------------------------------------------------------

FirstQuery(i) == Query("declared", "", WalkNames[i], Qtypes[1])

WalkInit ==
    /\ \E of \in [{WalkNames[i] : i \in 1..Len(WalkNames)} -> Truths], w \in Wildcards :
          /\ \A n \in DOMAIN of : of[n] = "synth" => w # "none"
          /\ zone = [of |-> of, wildcard |-> w]
    /\ \E k \in Kinds :
          batch = [kind |-> k, phase |-> IF k = "wildcard-discrimination"
                                         THEN "control" ELSE "declared",
                   name |-> 1, qt |-> 1, q |-> FirstQuery(1),
                   ask |-> {}, statuses |-> {}, control |-> NoControl]
    /\ acc = NoAnswers
    /\ out = <<>>

\* probeControl: the labels are asked before the candidates.
ProbeControl ==
    /\ batch.phase = "control"
    /\ \E c \in ControlAnswers :
          batch' = [batch EXCEPT !.phase = "declared", !.control = c]
    /\ UNCHANGED <<zone, acc, out>>

\* The result of a name, and the move to the next name or to the end.
Emit(a, statuses) ==
    LET wild == batch.kind = "wildcard-discrimination"
        verdict == IF wild THEN Discriminate(a.records, batch.control) ELSE "NotShadowed"
        last == batch.name = Len(WalkNames)
    IN  /\ out' = Append(out, [name |-> WalkNames[batch.name],
                               outcome |-> resolutionFor(decideResolution(a), verdict),
                               addresses |-> IF verdict = "NotShadowed" THEN a.addrs ELSE {},
                               delegation |-> Delegation(statuses),
                               statuses |-> statuses,
                               verdict |-> verdict, silent |-> a.silent])
        /\ acc' = NoAnswers
        /\ batch' = IF last THEN [batch EXCEPT !.phase = "written"]
                    ELSE [batch EXCEPT !.phase = "declared", !.name = @ + 1, !.qt = 1,
                                       !.q = FirstQuery(batch.name + 1),
                                       !.ask = {}, !.statuses = {}]

\* The prober exits non-zero and writes nothing: the batch covers no name.  The
\* wildcard batch does not look at the flag and emits what it has.
ResolverUnreachable ==
    IF batch.kind = "wildcard-discrimination"
    THEN Emit([acc EXCEPT !.silent = {Qtypes[i] : i \in batch.qt..Len(Qtypes)}], {})
    ELSE /\ batch' = [batch EXCEPT !.phase = "failed"]
         /\ out' = <<>>
         /\ UNCHANGED acc

\* A qtype's message is settled: the next qtype, or the walk's own NS query.
NextQtype(m) ==
    /\ acc' = Absorb(acc, batch.q, m)
    /\ batch' = IF batch.qt < Len(Qtypes)
                THEN [batch EXCEPT !.qt = @ + 1,
                        !.q = Query("declared", "", WalkNames[batch.name], Qtypes[batch.qt + 1])]
                ELSE [batch EXCEPT !.phase = "authorities",
                        !.q = Query("walk", "", WalkNames[batch.name], "NS")]
    /\ UNCHANGED out

\* One attempt of a declared query: lost and tried again, lost for good, asked
\* again plain or over TCP, or settled.
AskDeclared ==
    /\ batch.phase = "declared"
    /\ \E m \in NetPeerExchange(batch.q) :
          \/ /\ m.unreachable /\ ~Spent(batch.q)
             /\ batch' = [batch EXCEPT !.q = NextAttempt(@)]
             /\ UNCHANGED <<acc, out>>
          \/ /\ m.unreachable /\ Spent(batch.q)
             /\ ResolverUnreachable
          \/ /\ ~m.unreachable /\ AsksPlain(batch.q, m)
             /\ batch' = [batch EXCEPT !.q = [Query("declared", "", @.name, @.qtype)
                                               EXCEPT !.edns = FALSE, !.leg = "plain"]]
             /\ UNCHANGED <<acc, out>>
          \/ /\ ~m.unreachable /\ ~AsksPlain(batch.q, m) /\ AsksOverTCP(batch.q, m)
             /\ batch' = [batch EXCEPT !.q.transport = "TCP", !.q.tries = 0, !.q.leg = "tcp"]
             /\ UNCHANGED <<acc, out>>
          \/ /\ ~m.unreachable /\ ~AsksPlain(batch.q, m) /\ ~AsksOverTCP(batch.q, m)
             /\ NextQtype(m)
    /\ UNCHANGED zone

\* The walk's NS query to the resolver names the authorities to ask.
AskAuthorities ==
    /\ batch.phase = "authorities"
    /\ \E m \in NetPeerExchange(batch.q) :
          LET named == {r.data : r \in {x \in m.answer : x.type = "NS"}}
          IN  \/ /\ m.unreachable /\ ~Spent(batch.q)
                 /\ batch' = [batch EXCEPT !.q = NextAttempt(@)]
                 /\ UNCHANGED <<acc, out>>
              \/ /\ m.unreachable => Spent(batch.q)
                 /\ named = {}
                 /\ Emit(acc, {})
              \/ /\ named # {}
                 /\ \E s \in named :
                       batch' = [batch EXCEPT !.phase = "servers", !.ask = named \ {s},
                                   !.q = Query("walk", s, WalkNames[batch.name], "SOA")]
                 /\ UNCHANGED <<acc, out>>
    /\ UNCHANGED zone

\* Each authority is asked for the SOA; silence is our blindness, not its refusal.
AskServer ==
    /\ batch.phase = "servers"
    /\ \E m \in NetPeerExchange(batch.q) :
          LET statuses == batch.statuses \cup {Status(batch.q, m)}
          IN  \/ /\ m.unreachable /\ ~Spent(batch.q)
                 /\ batch' = [batch EXCEPT !.q = NextAttempt(@)]
                 /\ UNCHANGED <<acc, out>>
              \/ /\ m.unreachable => Spent(batch.q)
                 /\ batch.ask = {}
                 /\ Emit(acc, statuses)
              \/ /\ m.unreachable => Spent(batch.q)
                 /\ \E s \in batch.ask :
                       batch' = [batch EXCEPT !.ask = @ \ {s}, !.statuses = statuses,
                                   !.q = Query("walk", s, WalkNames[batch.name], "SOA")]
                 /\ UNCHANGED <<acc, out>>
    /\ UNCHANGED zone

WalkNext == ProbeControl \/ AskDeclared \/ AskAuthorities \/ AskServer

WalkSpec == WalkInit /\ [][WalkNext]_walkVars

-----------------------------------------------------------------------------
(* Properties.                                                             *)

Written == {out[i] : i \in 1..Len(out)}
Walked == IF batch.kind = "resolution-walk" THEN Written ELSE {}

\* However many of a name's exchanges are lost, truncated, refused or garbled,
\* a walk emits NameError only for a name the zone really denies, Resolved only
\* with addresses the zone really holds, and Lame only when an authority spoke
\* and none of those that spoke serves (leaf.go Resolve, decideResolution, walk).
WalkHonest ==
    \A r \in Walked :
       /\ r.outcome = "NameError" => zone.of[r.name] = "gone"
       /\ r.outcome = "Resolved" =>
             zone.of[r.name] \in {"here", "synth"} /\ r.addresses # {}
       /\ r.delegation = "lame" => \E s \in r.statuses : s.reached
       /\ (batch.phase = "written") => Len(out) = Len(WalkNames)

\* A wildcard batch never calls a name its own when a stable wildcard answers
\* for it, and never hides a name that holds its own record under a stable
\* wildcard, whatever control queries went unanswered; it calls nothing
\* shadowed in a zone with no wildcard (wildcarddiscrim Discriminate).
DiscriminationHonest ==
    \A r \in Written :
       batch.kind = "wildcard-discrimination" /\ r.silent = {} =>
          /\ r.verdict = "Shadowed" => zone.wildcard # "none"
          /\ zone.of[r.name] = "synth" /\ zone.wildcard = "fixed" => r.verdict # "NotShadowed"
          /\ zone.of[r.name] = "here" /\ zone.wildcard = "fixed" => r.verdict # "Shadowed"

\* Whatever the network lost, neither kind of batch states what the zone denies.
ReadingsHonest == WalkHonest /\ DiscriminationHonest
=============================================================================
