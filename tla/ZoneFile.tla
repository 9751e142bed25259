------------------------------ MODULE ZoneFile ------------------------------
(***************************************************************************)
(* The operator's zone files (cmd/web/seeds.go, internal/scan/zone.go,     *)
(* internal/queue/zone.go): a file is supplied for a name scope, dispatched*)
(* by the zone scan, and restated as the records it declares.              *)
(*                                                                         *)
(* A file is a sequence of lines and a line a sequence of tokens: "-" is   *)
(* leading white space, "(" and ")" join lines, ";" starts a comment.  A   *)
(* name is the sequence of its labels, the leaf first.                     *)
(***************************************************************************)
EXTENDS Naturals, FiniteSets, Sequences, SequencesExt

CONSTANTS
    Files,        \* the files an operator may supply
    Scopes,       \* the declared name scopes, in ListSeeds' order
    Absolute,     \* token -> the name it spells in full
    MaxSupplies,  \* bound: files ever supplied
    MaxReads,     \* bound: zone jobs ever run
    Interval,     \* the re-supply cadence, in days
    MaxDay        \* bound: the last day

VARIABLES
    day,
    zoneFiles,  \* zone_file rows in insertion order: scope, apex, at, content
    zoneJobs,   \* the zone jobs queued: scope, at, content
    restated,   \* the completed reads: what each job carried, its records and skips
    zoneReads

zoneVars == <<day, zoneFiles, zoneJobs, restated, zoneReads>>

-----------------------------------------------------------------------------
(* Lines. *)

CutAt(line) == LET at == {i \in DOMAIN line : line[i] = ";"}
               IN IF at = {} THEN 0 ELSE CHOOSE i \in at : \A j \in at : i <= j
stripComment(line) == IF CutAt(line) = 0 THEN line ELSE SubSeq(line, 1, CutAt(line) - 1)

Count(line, t) == Cardinality({i \in DOMAIN line : line[i] = t})
Parens == {"(", ")"}
Flat(line) == SelectSeq(line, LAMBDA t : t \notin Parens)
TrimSpace(line) == SelectSeq(line, LAMBDA t : t # "-")

ParenDepth(d, line) == LET n == d + Count(stripComment(line), "(") IN
                  IF n < Count(stripComment(line), ")") THEN 0 ELSE n - Count(stripComment(line), ")")

\* A line open at its end is joined to the next with its comment still in it.
logicalLines(content) ==
    LET step(acc, line) ==
          LET d == ParenDepth(acc.depth, line)
              buf == IF acc.buf = << >> THEN line ELSE acc.buf \o TrimSpace(line)
          IN IF d = 0 THEN [depth |-> 0, buf |-> << >>, out |-> Append(acc.out, Flat(buf))]
             ELSE [depth |-> d, buf |-> buf, out |-> acc.out]
        end == FoldLeft(step, [depth |-> 0, buf |-> << >>, out |-> << >>], content)
    IN IF end.buf = << >> THEN end.out ELSE Append(end.out, Flat(end.buf))

-----------------------------------------------------------------------------
(* Records. *)

knownTypes == {"A", "NS", "SOA", "CNAME"}
Stepped == {"IN", "3600"}   \* a class or a TTL before the type

resolveName(t, origin) ==
    CASE t = "@" -> origin
      [] t \in DOMAIN Absolute -> Absolute[t]
      [] OTHER -> <<t>> \o origin

\* A wildcard names a set and is no subject.
subjectOwner(name) == name[1] # "*"

\* A line that begins with white space inherits the owner before it.
Owner(p, line) == IF line[1] = "-" THEN p.last ELSE resolveName(line[1], p.origin)

\* The type and the data: what follows the class and TTL tokens after the owner.
Typed(line) ==
    LET kept == {i \in 2..Len(line) : line[i] \notin Stepped}
    IN IF kept = {} THEN << >> ELSE SubSeq(line, CHOOSE i \in kept : \A j \in kept : i <= j, Len(line))

Ignored(line) == TrimSpace(stripComment(line)) = << >> \/ line[1] = "$TTL"

LeftBehind_SubjectOnly(p, owner) == IF subjectOwner(owner) THEN [p EXCEPT !.last = owner] ELSE p
\* The owner a line leaves behind, whether or not it is a subject.
LeftBehind(p, owner) == [p EXCEPT !.last = owner]

\* One logical line: the owner it leaves behind, and the record or the skip.
parse(p, line) ==
    LET l == stripComment(line) owner == Owner(p, l) rest == Typed(l)
    IN CASE Ignored(line) -> [p |-> p, res |-> "none", rec |-> << >>]
         [] ~Ignored(line) /\ l[1] = "$ORIGIN" ->
              [p |-> [p EXCEPT !.origin = Absolute[l[2]]], res |-> "none", rec |-> << >>]
         [] ~Ignored(line) /\ l[1] = "-" /\ p.last = << >> -> [p |-> p, res |-> "skipped", rec |-> << >>]
         [] OTHER ->
              IF ~subjectOwner(owner) \/ Len(rest) < 2 \/ rest[1] \notin knownTypes
              THEN [p |-> LeftBehind(p, owner), res |-> "skipped", rec |-> << >>]
              ELSE [p |-> LeftBehind(p, owner), res |-> "record",
                    rec |-> [name |-> owner, type |-> rest[1], rdata |-> Tail(rest), line |-> line]]

\* RestateZone: each record under its owner and type, and every line dropped.
RestateZone(domain, content) ==
    LET step(acc, line) ==
          LET r == parse(acc.p, line)
          IN [p |-> r.p,
              recs |-> IF r.res = "record" THEN Append(acc.recs, r.rec) ELSE acc.recs,
              skipped |-> IF r.res = "skipped" THEN Append(acc.skipped, line) ELSE acc.skipped]
    IN FoldLeft(step, [p |-> [origin |-> domain, last |-> << >>], recs |-> << >>, skipped |-> << >>],
                logicalLines(content))

-----------------------------------------------------------------------------
(* Supply, dispatch, read. *)

\* The zone's apex: its last $ORIGIN, or the owner of its SOA.
zoneApex(content) ==
    LET origins == SelectSeq(content, LAMBDA l : l[1] = "$ORIGIN")
        soas == SelectSeq(content, LAMBDA l : l[1] \in DOMAIN Absolute /\ \E i \in DOMAIN l : l[i] = "SOA")
    IN IF origins # << >> THEN Absolute[Last(origins)[2]]
       ELSE IF soas # << >> THEN Absolute[soas[1][1]] ELSE << >>

Within(name, domain) ==
    Len(name) >= Len(domain) /\ SubSeq(name, Len(name) - Len(domain) + 1, Len(name)) = domain

\* The first declared scope the apex is within; 0 refuses the file.
nameSeedForApex(apex) ==
    LET at == {i \in DOMAIN Scopes : apex # << >> /\ Within(apex, Scopes[i])}
    IN IF at = {} THEN 0 ELSE CHOOSE i \in at : \A j \in at : i <= j

ZoneInit == day = 0 /\ zoneFiles = << >> /\ zoneJobs = {} /\ restated = {} /\ zoneReads = 0

NextDay == day < MaxDay /\ day' = day + 1 /\ UNCHANGED <<zoneFiles, zoneJobs, restated, zoneReads>>

uploadOneZoneFile(content) ==
    /\ Len(zoneFiles) < MaxSupplies /\ nameSeedForApex(zoneApex(content)) # 0
    /\ zoneFiles' = Append(zoneFiles, [scope |-> nameSeedForApex(zoneApex(content)),
                                       apex |-> zoneApex(content), at |-> day, content |-> content])
    /\ UNCHANGED <<day, zoneJobs, restated, zoneReads>>

\* LatestZoneFilesForDispatch: the last file supplied for each scope.
Latest(scope) ==
    LET at == {i \in DOMAIN zoneFiles : zoneFiles[i].scope = scope}
    IN CHOOSE i \in at : \A j \in at : zoneFiles[j].at < zoneFiles[i].at
                                       \/ (zoneFiles[j].at = zoneFiles[i].at /\ j <= i)

BuildZoneJobs ==
    /\ zoneFiles # << >> /\ zoneReads < MaxReads
    /\ zoneJobs' = zoneJobs \cup {zoneFiles[Latest(s)] : s \in {zoneFiles[i].scope : i \in DOMAIN zoneFiles}}
    /\ zoneReads' = zoneReads + 1
    /\ UNCHANGED <<day, zoneFiles, restated>>

\* The read has no step that can fail, and its records are stamped at the supply.
completeZone(j) ==
    /\ j \in zoneJobs
    /\ LET z == RestateZone(Scopes[j.scope], j.content)
       IN restated' = restated \cup {[job |-> j, recs |-> z.recs, skipped |-> z.skipped, at |-> j.at]}
    /\ zoneJobs' = zoneJobs \ {j}
    /\ UNCHANGED <<day, zoneFiles, zoneReads>>

ZoneNext ==
    \/ NextDay \/ BuildZoneJobs
    \/ \E c \in Files : uploadOneZoneFile(c)
    \/ \E j \in zoneJobs : completeZone(j)

ZoneSpec == ZoneInit /\ [][ZoneNext]_zoneVars

-----------------------------------------------------------------------------
\* The owner of a logical line by the zone-file rule: of the nearest line at or
\* above it that names one, under the nearest $ORIGIN above that.
OwnerAt(lines, n, domain) ==
    LET named == {k \in 1..n : ~Ignored(lines[k]) /\ lines[k][1] \notin {"-", "$ORIGIN"}}
        m == CHOOSE k \in named : \A j \in named : j <= k
        origins == {k \in 1..m : lines[k][1] = "$ORIGIN"}
        origin == IF origins = {} THEN domain
                  ELSE Absolute[lines[CHOOSE k \in origins : \A j \in origins : j <= k][2]]
    IN IF named = {} THEN << >> ELSE resolveName(lines[m][1], origin)

\* A zone file is restated line for line: each record has the owner the rule gives
\* its line, no wildcard's line and no line without an owner becomes a record, and
\* every other line that declares anything is named among the skipped (RestateZone).
LinesAccounted ==
    \A r \in restated :
      LET lines == logicalLines(r.job.content)
          stated == {n \in DOMAIN lines : ~Ignored(lines[n]) /\ lines[n][1] # "$ORIGIN"}
          owner == [n \in stated |-> OwnerAt(lines, n, Scopes[r.job.scope])]
          records == {n \in stated : /\ owner[n] # << >> /\ subjectOwner(owner[n])
                                     /\ Typed(stripComment(lines[n]))[1] \in knownTypes}
      IN /\ {<<r.recs[i].name, r.recs[i].line>> : i \in DOMAIN r.recs} = {<<owner[n], lines[n]>> : n \in records}
         /\ {r.skipped[i] : i \in DOMAIN r.skipped} = {lines[n] : n \in stated \ records}
=============================================================================
