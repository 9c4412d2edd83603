------------------------------- MODULE AuditChain -------------------------------
(***************************************************************************)
(* The audit log (audit.js): every process links its records into a hash   *)
(* chain of its own, the lines of all processes end up in one log, and     *)
(* verifyChain (verify-audit.js) tells whether the log is as it was        *)
(* written.  A hash is modelled by what it commits to: two hashes are      *)
(* equal exactly when the key, the previous hash and the record are.       *)
(***************************************************************************)
EXTENDS Naturals, Sequences, SequencesExt, FiniteSets

CONSTANTS
    Processes,      \* API and worker processes
    Bodies,         \* what a record says, apart from the user agent
    Agents,         \* the user agents of the requests; "undefined": no such header
    MaxRecords,     \* bound on the records written
    MaxBoots,       \* bound on the starts of processes
    Damages         \* what may befall the log afterwards, see DamageKinds

DamageKinds == {"edit", "lose", "truncate", "duplicate", "move"}

ASSUME AuditAssumption ==
    /\ MaxRecords \in Nat /\ MaxBoots \in Nat
    /\ Damages \subseteq DamageKinds

VARIABLES
    log,            \* the lines of the collected log, in order
    chainId,        \* chainId[p]: the process's chain, new with every start
    seq, lastHash,  \* the process's position in its chain
    boots,          \* chains given out so far
    damage          \* what happened to the log

chainVars == <<chainId, seq, lastHash, boots>>
vars == <<log, chainVars, damage>>

Genesis == <<>>

\* canonical writes undefined like null; a line of JSON leaves it out.
Canonical(agent) == IF agent = "undefined" THEN "null" ELSE agent
ToLine(agent) == IF agent = "undefined" THEN "absent" ELSE agent

\* HMAC over prevHash and canonical(record without hash).
ComputeHash(r) == <<r.chain, r.seq, r.body, Canonical(r.agent), r.prevHash>>

Record(c, s, b, a, prev) == [chain |-> c, seq |-> s, body |-> b, agent |-> a, prevHash |-> prev]

\* The parsed line: the record as JSON keeps it, with its hash.
Line(r) == [chain |-> r.chain, seq |-> r.seq, body |-> r.body, agent |-> ToLine(r.agent),
            prevHash |-> r.prevHash, hash |-> ComputeHash(r)]

Init ==
    /\ log = <<>>
    /\ chainId = [p \in Processes |-> 0]
    /\ seq = [p \in Processes |-> 0]
    /\ lastHash = [p \in Processes |-> Genesis]
    /\ boots = 0 /\ damage = "none"

FaultyNextHash(p, r) == lastHash[p]                     \* lastHash is not moved on
NextHash(p, r) == ComputeHash(r)

\* The module is loaded: a random chainId, and a chain from the start.
Boot(p) ==
    /\ damage = "none" /\ boots < MaxBoots
    /\ boots' = boots + 1
    /\ chainId' = [chainId EXCEPT ![p] = boots + 1]
    /\ seq' = [seq EXCEPT ![p] = 0]
    /\ lastHash' = [lastHash EXCEPT ![p] = Genesis]
    /\ UNCHANGED <<log, damage>>

Audit(p, b, a) ==
    /\ damage = "none" /\ chainId[p] # 0
    /\ Len(log) < MaxRecords
    /\ LET r == Record(chainId[p], seq[p], b, a, lastHash[p])
       IN  /\ log' = Append(log, Line(r))
           /\ lastHash' = [lastHash EXCEPT ![p] = NextHash(p, r)]
    /\ seq' = [seq EXCEPT ![p] = @ + 1]
    /\ UNCHANGED <<chainId, boots, damage>>

-----------------------------------------------------------------------------
(* Damage to the log: one change of one line *)

LastOfChain(i) == \A j \in DOMAIN log : log[j].chain = log[i].chain => log[j].seq <= log[i].seq

Damage(what) == what \in Damages /\ damage = "none" /\ damage' = what /\ UNCHANGED chainVars

\* Without the key no new hash can be made, but one of the log can be put elsewhere.
Hashes == {Genesis} \cup {log[j].hash : j \in DOMAIN log}

\* Bounds: MaxBoots and MaxRecords, as for the lines that were written; no process
\* writes to chain 0.
Edits(r) ==
    UNION {{[r EXCEPT !.body = b] : b \in Bodies},
           {[r EXCEPT !.chain = c] : c \in 0 .. MaxBoots},
           {[r EXCEPT !.seq = n] : n \in 0 .. MaxRecords},
           {[r EXCEPT !.prevHash = h] : h \in Hashes},
           {[r EXCEPT !.hash = h] : h \in Hashes}}

EditLine ==
    /\ Damage("edit")
    /\ \E i \in DOMAIN log : \E r \in Edits(log[i]) \ {log[i]} : log' = [log EXCEPT ![i] = r]

\* A line is missing; at the end of its chain that is a truncation.
LoseLine ==
    \E i \in DOMAIN log :
        /\ Damage(IF LastOfChain(i) THEN "truncate" ELSE "lose")
        /\ log' = RemoveAt(log, i)

DuplicateLine ==
    /\ Damage("duplicate")
    /\ \E i, j \in DOMAIN log : log' = InsertAt(log, i, log[j])

MoveLine ==
    /\ Damage("move")
    /\ \E i, j \in DOMAIN log :
          /\ i < j /\ log[i].chain = log[j].chain
          /\ log' = [log EXCEPT ![i] = log[j], ![j] = log[i]]

Next ==
    \/ \E p \in Processes : Boot(p) \/ \E b \in Bodies, a \in Agents : Audit(p, b, a)
    \/ EditLine \/ LoseLine \/ DuplicateLine \/ MoveLine

Spec == Init /\ [][Next]_vars

-----------------------------------------------------------------------------
(* verifyChain *)

Chains == {log[i].chain : i \in DOMAIN log}

LinesOf(c) == {i \in DOMAIN log : log[i].chain = c}

FaultyInOrder(c) == SelectSeq([i \in DOMAIN log |-> i], LAMBDA i : log[i].chain = c)    \* no sort

\* The lines of a chain, ordered by seq; lines with the same seq as they stand.
InOrder(c) ==
    LET Before(i, j) == \/ log[i].seq < log[j].seq
                        \/ log[i].seq = log[j].seq /\ i < j
    IN  CHOOSE s \in [1 .. Cardinality(LinesOf(c)) -> LinesOf(c)] :
            \A j, k \in DOMAIN s : j < k => Before(s[j], s[k])

SeqFits(expected, r) == r.seq = expected.seq

LinkFits(expected, r) == r.prevHash = expected.hash
FaultyHashFits(r) == TRUE                               \* the hash is taken at its word
HashFits(r) == r.hash = ComputeHash(r)

Expect(r) == [hash |-> r.hash, seq |-> r.seq + 1]

\* The walk over a chain: what a line must be like depends on the line before it, be that
\* right or wrong.  The errors are the places where a line is not like that.
ChainErrors(c) ==
    LET s == InOrder(c)
        Expected(k) == IF k = 1 THEN [hash |-> Genesis, seq |-> 0] ELSE Expect(log[s[k - 1]])
    IN  {k \in DOMAIN s : ~ /\ SeqFits(Expected(k), log[s[k]])
                            /\ LinkFits(Expected(k), log[s[k]])
                            /\ HashFits(log[s[k]])}

VerifyOk == \A c \in Chains : ChainErrors(c) = {}

-----------------------------------------------------------------------------
(* Properties *)

\* A line in its place: no other has its number, and it commits to the one before it,
\* which is there, or starts the chain.
InPlace(i) ==
    LET lines == LinesOf(log[i].chain)
    IN  /\ \A j \in lines : log[j].seq = log[i].seq => j = i
        /\ IF log[i].seq = 0
           THEN log[i].prevHash = Genesis
           ELSE \E j \in lines : log[j].seq + 1 = log[i].seq /\ log[i].prevHash = log[j].hash

\* A chain that is whole: every line is in its place and as it was hashed.
IsWhole(c) == \A i \in LinesOf(c) : InPlace(i) /\ log[i].hash = ComputeHash(log[i])

\* The walk of verifyChain accepts a log exactly when every chain in it is whole.
VerifierIsExact == VerifyOk <=> \A c \in Chains : IsWhole(c)

\* A log that nothing befell verifies, however processes start, stop and interleave,
\* and also when its lines arrive in another order (audit.js:123, verify-audit.js:9).
IntactVerifies == damage \in {"none", "move"} => VerifyOk

\* An edited, lost or duplicated record does not verify (audit.js:17-18).
DamageIsFound == damage \in {"edit", "lose", "duplicate"} => ~VerifyOk
=============================================================================
