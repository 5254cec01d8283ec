# Verification of the pq-migration-playbook labs

The repository holds twelve chapters of labs on post-quantum migration. Part of
it is calculation and reporting; the rest, under `labs/*/solution/`, keeps state
that must survive crashes, is driven by several threads, talks to a peer that may
fail, or decides what two parties may agree on. This directory models those
programs in TLA+, checks the models with TLC, and proves their central
invariants with TLAPS. Paths below are relative to the repository root.

## 1. Inventory

### Programs that keep state or interact

**LMS key state** (`labs/ch08/solution/lms.py`, `statefail.py`).
`CommittedLmsPrivateKey` signs with one-time keys 0 .. 2^h - 1 and must never
sign twice with one of them. State: seed, identifier, `q`, `_reserved_until` in
memory; the JSON state file and its `.tmp` sibling on disk. Operations: the
constructor (create or load), `sign` → `_take_index` → `_persist`. Hard: a crash,
an OSError or a power cut between any two of open-with-truncate, write, fsync
and rename; the last, shortened reservation; loading a key in the middle of a
block. Correct when: no index is used twice; the file is ahead of every
signature; the file can always be parsed; a crash costs at most one block; the
key does not get stuck before it is exhausted. The signature itself has a
checksum and, in HSS, a chain of keys: correct when it verifies for its message
and its key alone.

**Agility policy** (`labs/ch11/solution/agile.py`, `providers.py`). State: a YAML
policy file, a `Policy` object with a chain of `previous` objects, the telemetry.
Operations: `load`, `save`, `with_kill`, `rollback`, `negotiate`, `Channel`.
Two parties with different policies interact by `negotiate`, which reads both.
Hard: long sequences of kills, rollbacks, saves and reloads; dates passing
between them; policies whose orders and floors disagree. Correct when: no channel
uses what either end forbids that day; whether two parties connect does not
depend on who calls; nothing forbidden comes back by itself; the downgrade flag
is exact.

**Kill-switch drill and test plan** (`labs/ch11/solution/drill.py`,
`labs/ch12/solution/testplan.py`). The drill runs channels, kills the preferred
KEM through a working copy of the policy file, runs channels, rolls back, runs
channels. The plan runs suites and the drill as programs and reads the result
files of other labs. Hard: failure of a batch halfway; a rollback of the object
that forgets the file; result files of an earlier run. Correct when: a drill that
reports has restored everything, one that dies does so only because no fallback
existed, and the plan exits 0 only if nothing it looked at failed.

**Envelope store** (`labs/ch09/solution/envelope.py`). State: per object a header
file (KEK id, wrapped DEK) and a body file; the KEKs in memory. Operations:
`make_dataset`, `rekey`, `shred`, `decrypt_object`. Hard: both files are
overwritten in place, so an OSError between or inside two writes leaves a pair
that does not match; `rekey` is retried; KEKs are shredded on the strength of an
earlier `rekey`. Correct when: a failure costs at most the object it hit; a KEK a
completed `rekey` replaced is safe to shred; nothing shredded comes back; a
retried `rekey` ends.

**SSH observer, auditor, key-exchange lab** (`labs/ch06/solution/sshobserve.py`,
`kexlab.py`). A relay with two threads, each parsing one direction into a shared
`Summary` without a lock; an auditor that reads one server until its KEXINIT; a
lab that runs the relay with sockets of its own between real ssh processes. Hard:
interleaved assignments to one record; packets cut anywhere by `recv`;
half-closed, aborted and silent connections. Correct when: the result is what the
two KEXINITs negotiate, whoever was first; it does not depend on the chunks; what
has timeouts returns.

**TLS observer and interoperability matrix** (`labs/ch05/solution/tlsobserve.py`,
`labs/ch12/solution/interop.py`). The same relay for TLS; a lock protects the record
list and the byte counts but not the fields the hello parsers set. A cell of the matrix
starts a server, the observer and a client. Hard: the first server flight is computed
from the order in which two threads appended; a second ClientHello overwrites fields of
the first; a hello split over two records is parsed as if each part were a message;
half-close and reset; an implementation that ignores the group it was asked for; an
observer that is late. Correct when: the flight is what the server sent before it saw
the client's answer; the fields are those of the handshake that completed, as far as the
client's hello came in one record; a printed cell says what happened; the relay ends.

**ACME client** (`labs/ch07/solution/acmeclient.py`). Nonces that each answer
replaces, challenge tokens served by another thread, polling to a final state, and
a loop of issuances. Hard: a CA that is slow, reuses authorizations, refuses or
loses a request after having acted on it. Correct when: the rows it writes are
true of the CA's side, a run without faults gets its certificates, and it ends.

**CBOM scan, merge and diff** (`labs/ch03/solution/cbomscan.py`, `tlsmerge.py`,
`cbomdiff.py`). State: the CBOM file, read back and written again by the merge. Hard:
the first sighting of an asset fixes its attributes and later ones add evidence, while
rules and certificates do not agree on every level; references between components
survive being written, loaded and written again. Correct when: references resolve, a
scan is what the tree holds, a merge loses nothing.

**Backlog scheduler and scoring** (`labs/ch04/solution/backlog.py`,
`labs/ch01/solution/pqscore.py`). State: the in-degrees, the ready list and the
order of Kahn's algorithm; deadlines; starts, finishes and streams. Operations:
`score`, `topological_order`, `backward_pass`, `list_schedule`, `critical_path`,
`find_cycle`, `propose_cut`, one after the other. Hard: each pass trusts what the
one before left; nodes in a cycle drop out of all of them; streams wait for
dependencies; slack is rounded. Correct when: the order leaves out exactly what
waits for a cycle; deadlines are the latest that leave every dependent its time;
no node starts early and no stream does two things at once; streams are used;
the chain binds; the printed cycle is one.

**WireGuard PSK rotation** (`labs/ch06/solution/wgpsk.py`) and **PKI lab**
(`labs/ch07/solution/pkilab.py`). Commands run by hand that leave a key in two
kernels, and a directory of certificates built file by file. Hard: rotations that
overtake each other; a build that is stopped. Correct when: two ends have one
secret exactly when they did one exchange; a directory that passes `certs_ok` of
the interop harness can be used.

### Programs that calculate

**Hybrid KEM and X-Wing** (`labs/ch02/solution/hybrid.py`,
`labs/ch09/solution/xwing.py`), the **toy KEM** of `labs/ch12/solution/timing.py`,
the **providers and the channel** of chapter 11: secrets agree exactly when the
exchange was whole. **ML-DSA tokens** (`labs/ch09/solution/jws_mldsa.py`), the
**external mu** (`labs/ch10/solution/hsmplan.py`, `kms_mldsa.py`): what verifies is
what was signed. A session with the cloud creates a key that is charged for until it
is deleted. Hard: any of its calls may fail, before or after it took effect. Correct
when: a result is returned only if the signature verifies and the key is scheduled
for deletion, and a key stays behind only where the call to create or to schedule it
failed.
**PKCS#11 audit** (`labs/ch10/solution/p11audit.py`): the verdict follows from the
token.

### Not modelled

- `labs/ch07/solution/renewal.py`, `chainsize.py`, `labs/ch02/solution/sizes.py`,
  and the tables of `hsmplan.py` and `pqscore.py`: arithmetic on sizes and rates
  that is printed and decides nothing.
- `labs/ch05/solution/handshakes.py`, `loadtest.py`, `labs/ch08/solution/signbench.py`,
  the statistics of `timing.py`: they measure a machine.
- The forgery in `statefail.py` and `lms.py` that shows what reuse of an index
  costs, and the class it uses. That an index is not reused is the property here.
- `labs/ch03/solution/validate.py`: a call of a JSON-schema library.
- The text patterns of the scanner: a model file is what the patterns find in it.
- The starters repeat the solutions with gaps; tests and documents were read as
  statements about the programs.

### How the components interact

`drill.py` calls `agile.py`, which looks up `providers.py`; `testplan.py` runs
`drill.py` and reads the files of other labs; `interop.py` runs `tlsobserve.py` and
looks at the directory `pkilab.py` builds; `kexlab.py` runs the parser and pumps of
`sshobserve.py`; `tlsmerge.py` and `cbomdiff.py` read what `cbomscan.py` wrote;
`backlog.py` calls `pqscore.py`. Inside a component, interaction is by shared state:
pump threads through a `Summary`, two `Policy` objects through `negotiate`, a key
object and its successor after a crash through the state file, the ACME client and
its challenge server through a dictionary.

## 2. Modules

| module | models | role |
|---|---|---|
| `OneTimeKeys` | `LmsPrivateKey` as promised: a published key, each index once | abstract specification |
| `CommittedKey` | `CommittedLmsPrivateKey` and its file | implements `OneTimeKeys` |
| `LmsSignature` | LM-OTS digits, LMS and HSS signatures | operators |
| `PolicyRules` | `agile.Policy`'s rules, `negotiate`, the provider registry | operators |
| `AgilePolicy` | two parties with files, objects, channels, days | extends `PolicyRules` |
| `KillDrill` | `drill.run` | extends `PolicyRules` |
| `TestPlan` | `testplan.main` | composes with `KillDrill` |
| `KeyedStore` | the data set as promised: which KEK opens each object | abstract specification |
| `Envelope` | the data set, `make_dataset`, `rekey`, `shred` | implements `KeyedStore` |
| `SshObserver` | `pump`, `SshParser`, `observe_one`, `audit_host`, `kexlab.run_one` | |
| `TlsObserver` | `pump`, `RecordParser`, `observe_one`, `interop.cell` | |
| `AcmeClient` | `acmeclient.main` and a CA | |
| `Cbom` | the three tools on one file | |
| `PqScore`, `Backlog` | `pqscore.py`'s dates; `backlog.run` and `main`, loop by loop | `Backlog` extends `PqScore` |
| `HybridKem`, `MlDsa`, `Channel` | KEMs; signatures and tokens; `agile.Channel` | operators; `Channel` extends the other two |
| `PskRotation`, `PkiLab` | `wgpsk.py`; `pkilab.build` and `certs_ok` | |
| `P11Audit` | `p11audit.py` | operators |
| `Labs` | all of the last four rows and `LmsSignature` on bounded inputs | composition |
| `CommittedKeyProofs`, `AgilityProofs`, `EnvelopeProofs`, `SshObserverProofs`, `TlsObserverProofs`, `AcmeClientProofs`, `BacklogProofs`, `LabsProofs` | | theorems; `AgilityProofs` is about `PolicyRules`, `AgilePolicy`, `KillDrill` and `TestPlan`, `LabsProofs` about `Labs` and `Cbom` |
| `MC*` | small instances, one `.cfg` per run | |

Definitions keep the names of the source where they can. Operators that stand
before a definition and are named after a plausible mistake (`LoadSkipsOne`,
`FeedIdentReturns`, `RewrapNewDek`, ...) are wrong variants of it; `PROJECT.json`
says which property each one breaks. They take no part in any specification.

### CommittedKey

`file`, `tmp` and `durable` are the state file as the path names it, the
temporary file, and the state file as a power cut would leave it: `os.replace`
moves `tmp` to `file`, and only `FlushDirectory`, an action of the file system
that the program does not ask for, brings `durable` up to date. `pc[h]` is where
a handle stands: absent, idle, one of the four steps of `_persist` (`OpenTmp`,
`WriteTmp`, `SyncTmp`, `Replace`), or at the index it is about to release.
`goal[h]` tells a `_persist` of the constructor from one of `_take_index`.
`Load` sets `q` to the stored boundary, as lms.py:254-257 does; that is what
makes indices of an interrupted block lost instead of reused. `PersistFails` is
an OSError at any of the four steps; `Drop` an object that goes away; `Crash` the
process; `PowerCut` the machine, after which `file` is `durable` and `undone`
records whether a rename was lost by it.

Signing has two steps: `TakeReserved` or `TakeFirst` hands out the index and
`Release` returns the signature, so a crash in between loses it. The hash
computations are left to `LmsSignature`; a key is a member of `Keys`, fresh on
every `Create`. With `Exclusive` false several objects may be open on one file.

### PolicyRules, AgilePolicy, KillDrill, TestPlan

A policy is the record of its YAML file. Days are 0 .. `LastDay`, a date that is
not given is `Never`. `Usable`, `Negotiated`, `Event` and `WithKill` are the
functions of agile.py. In `AgilePolicy` `policy[p]` is a sequence: the document of
the object, then those of its `previous` chain; `Load` replaces it by the file's
document alone, as `Policy.load` does. `Connect` builds a channel: KEM, then
signature, each negotiated under the policies of both ends.

`KillDrill` follows `run` line by line: one step per batch of channels and per access
to the file. `loaded` is the policy with its `previous`, `choices` are the variables
`base`, `after` and `again`. `events` is the length of the telemetry. `TestPlan` runs
that specification as its section 6 (`Drilling`), between sections that read their
source's answer: good, bad, absent, or broken (not ending, or not readable).

### Envelope

A body is identified with the DEK it was encrypted under, so an object is
decryptable when its header is whole, its KEK is not shredded and its DEK is
that of the body. A failed header write leaves the old header (the open failed),
no content, or a header cut inside or after its meta part: `Torn` or `Lost`.
`rekey` raises at the first header it cannot parse or unwrap and leaves the rest
of the loop undone. `retired` is a history variable: the KEKs that a `rekey` that
returned has replaced and no `make_dataset` or `rekey` has wrapped under since.

`KeyedStore` is the caller's view: `opens[o]` is the KEK whose DEK opens object o, or
`None`. An object is replaced (`Begin`, `Complete`) or moved from one KEK to another
(`Move`), and only while those KEKs exist; a KEK is given up (`Retire`) when it opens
nothing; an OSError (`Fail`) costs one object at most. `Envelope` maps `opens[o]` to
the header's KEK if the header's DEK is that of the body. `NeverRevived` and
`RetiredIsSafe` say parts of this on the files themselves.

### SshObserver, TlsObserver

The SSH endpoints send a script of units (an optional line, identification, KEXINIT,
their half of the exchange, NEWKEYS, one encrypted unit); the TLS endpoints send
records as TLS 1.3 has them, with a retry when the first key share is not one
the server takes. A position in a stream counts half units, so a chunk may end
inside a unit. `feed` is modelled unit by unit.

In `SshObserver` each assignment inside a KEXINIT is a step of its own: parsing
the kex list, the host-key list, testing that both sides are there, computing each
result and storing it. Between any two of them the other thread may run.
`RecvAny`/`StopReceiving`/`SendAll` are `pump`; `AuditRecv`/`AuditReports` are the
loop of `audit_host`, which shares `Feed`. `mode` is `"relay"`, `"audit"` or
`"lab"`; in the last the sockets have no timeout (kexlab.py:51) and `LabRow` waits
for the ssh process and for at most 25 seconds.

In `TlsObserver` `Parse` sets the fields (without the lock) and `AppendRecord` adds
the record and the bytes (with it). `Hellos` are the places of whole ClientHellos in a
stream; the server answers while one is `Unanswered`. `Flight` and `Shown` are what
`observe_one` and `render` compute afterwards. Each record carries `after`, how many
records of the other side its sender had seen: that is how the order on the wire is
known.

A client of `TlsObserver` in a cell of `Fragmenting` may split its first hello and its
second one in two records. The parser takes each record for a message, so the first
part (kind `"part"`) is parsed up to where it ends: before its key shares have been
read, which leaves them unset and may raise, or inside or after the data of the last
one, which sets them and the size. The second part (`"rest"`) is parsed if its first
byte says ClientHello or ServerHello: `Cut` and `MisreadAnswers` are what it may leave
in the client's and in the server's fields, `NoGroup` standing for a group that is
nonsense. (That the 32 bytes at the place of the random are those of a
HelloRetryRequest is left out.)

`Shown` takes the group that is known as its argument: `Negotiated`, or none when the
15 seconds that `cell` waits for the observer are over before it returned.

Limits of the environment: only the SSH server sends lines before its
identification; `sendall` fails only when its peer has closed.

### AcmeClient

One step per request. `Post` has three outcomes: handled and answered; answered
with a problem document; lost or left without an answer, before or after the CA has
handled it. A nonce is
dropped before it is sent, so what nonces can do wrong is that a request is
refused. `Fails` is a RuntimeError (a row, and the end of the loop), `Dies` any
other exception (nothing is written). `Validate` and `Issue` are the CA in its own
time; it is external, and its validation fetches the published token.

### Cbom

A file of the tree is a sequence of findings. `Add` is `Inventory.add`: the first
asset of a key stays. `Component` keeps the fields that a component of its type has,
and `LoadComponent` rebuilds an asset from them. `IndexKey` is what `cbomdiff.py`
compares components by. `PublicKeyAsset` has the branches of `public_key_asset`: RSA,
elliptic curves and Edwards curves have level 0, ML-DSA keys their own, and a key of
any other type (DSA, DH, X25519) none, `NoLevel`. `Observed` adds the group, the
signature type and the first certificate of an answer if it has them (an absent field
is `""`). `Edit` and `Reconfigure`
change the tree and the endpoints between runs of the tools.

### PqScore, Backlog

Dates are days from today and spans are days, so rounding of years to days is
left out; the scores and priority bands that are only printed are, too. Nodes are
numbers in the order of their names, which is what `sorted`, `ready.sort()` and
the second component of the scheduler's sort key compare. `ready` is a set for a
list that is sorted before each use: its first element is `Least(ready)`.
`pc` says which function runs. `Place` is a turn of Kahn's loop, `Inherit` a turn
of `backward_pass` with `at` the position in the order, `ScheduleNext` a turn of
`list_schedule` and `Walk` one of `find_cycle`, whose `path` ends with `cur`.
`CriticalPath` is an operator on what the passes left; slack is rounded to multiples
of `SlackUnit`. `depends_on` is a set: where the code follows the first dependency
in the order of the file, `Walk` may follow any. Where the code would fail on an
empty list (`ready[0]` in `list_schedule`) or return nothing (`nxt` in
`find_cycle`), no action is enabled, so the absence of deadlock shows that neither
happens.

### Labs

A behaviour is a sequence of commands of `wgpsk.py`, a sequence of builds of
`pkilab.py`, or one calculation on an input chosen from bounded sets: what each of
two ends, or a signer and a verifier, do with whole, mixed-up or altered values.
Cryptography is symbolic: a KEM's secret is the term of what it was derived from,
a signature the term of key and input. `LmsSignature` takes its hash as a constant
(`Digest`), and its digits and checksum are computed as the code computes them, with
`Pow2` for shifts and powers of two.
`PkiLab` opens each file before it writes it and may stop anywhere. `Live` is a session
with KMS: each of its four calls is answered, refused, or carried out and not answered,
and what is left is whether a key was made, whether it is scheduled for deletion and
whether `live` returned. KMS may also sign with another key than the caller believes.

## 3. Runs

| run | instance | states | shows |
|---|---|---|---|
| `key_restart` | 1 handle, 3 keys, 5 indices, reservations 1-3, 2 faults | 415,748 | `NoIndexReuse`, `ReservedBeforeReleased`, `StateReadable`, `CrashCost`, `EveryIndexSpent`, refinement of `OneTimeKeys` |
| `key_flush` | 1 handle, 3 indices | - | violation of `DurableBeforeReleased` |
| `policy_rules` | 2 parties, 2 days, policy-v3 and a peer with another order and floor, 2 victims, versions up to 5 | 164,808 | `ChannelsKeepTheRules`, `ConnectivityIsSymmetric`, `OnlyRollbackOrLoadWidens` |
| `test_plan` | every order of the KEMs, two signature lists, floors 0 and 1, dates, kill switches; at most one source of the plan not good; any older drill.json | 822,672 | `DrillKeepsItsPromise`, `PlanIsHonest` |
| `envelope` | 3 objects, 2 KEKs, 6 DEKs, 2 OSErrors | 86,990 | `OneLossPerFault`, `RetiredIsSafe`, `RetriedRekeyCompletes`, refinement of `KeyedStore` |
| `ssh` | 1 line, three modes, endpoints that abort, 4 reads in an audit | 543,879 | `KexAsNegotiated`, `SummaryIsCausal`, `ChunksDoNotMatter`, `ObserveEnds` |
| `ssh_hostkey` | the same without aborts | - | violation of `HostkeyAsNegotiated` |
| `backlog` | 4 nodes: every graph of 3, every graph of 4 with up to 4 edges; two mixes of enablers and assets, two choices of durations; 1, 2 or 4 streams | 427,932 | `OrderIsExact`, `LatestPlanIsFeasible`, `ScheduleIsFeasible`, `StreamsAreUsed`, `CriticalPathBinds`, `CycleIsReal` |
| `tls` | 5 cells: plain, retry, no common group, a group that pyssl overrides, one that Go lacks; first and second hellos split, aborts, an observer that is late | 2,390,812 | `FlightIsExact`, `FieldsAreRight`, `CellIsTrue`, `ObserveEnds` |
| `acme` | 3 certificates, 3 polls, 3 faults | 888 | `RowsAreTrue`, `FaultFreeRunSucceeds`, `IssuingEnds` |
| `cbom` | 4 files, 2 endpoints; a DSA key by rule and by certificate | 10,240 | `ReferencesResolve`, `ScanIsExact`, `MergeOnlyAdds` |
| `labs` | 2 epochs, 2 key pairs, 2 encapsulations; 2 builds; 2 LMS heights, 4 Winternitz parameters; tokens that lack one thing; every way four KMS calls may end | 23,118 | `SecretsAgreeExactly`, `VerifiesExactly`, `DigitsCross`, `CertsOkMeansUsable`, `AuditIsRight` |

### Bounds

- `CommittedKey`: five indices hold two whole reservations of two and a
  shortened one, a shortened one of three, and five of one. Two faults let one
  interrupt the recovery from another. A `Create` that crashes before its rename
  leaves no file, so three keys allow the two faults to spend one each. The proofs
  cover every value of all of these.
- `AgilePolicy`: a date of day 0 is today on day 0 and past on day 1. Versions start at
  3 and end at 5, so a party can kill twice in a row and roll back twice.
- `TestPlan`: `N = 2` tells a batch of channels from one. The documents cover every
  preference among the registered KEMs. The sections are independent of each other
  but for the drill and its file, so one source at a time that is not good suffices;
  the drill and drill.json vary freely beside it.
- `Envelope`: three objects have a first, a middle and a last; six DEKs are two
  whole data sets, so that a second one overwrites a first. Two OSErrors hit one
  object twice or two objects, or a `rekey` and its retry.
- `SshObserver`: one line before the identification is what the parser can be caught
  by. TLC has also run two and three lines (section 5); the proof is for any number. Four
  reads are fewer than the half units of a server, so the limit of the auditor (50 in
  the code) is reached.
- `TlsObserver`: one key share makes a client that names two groups fall into a
  HelloRetryRequest; the five cells reach each of the four marks of the matrix. Hellos
  are split in the cell where there is a retry as well, so both of them may be
  (`Fragmenting`); the other cells are left whole to keep the run small. The proofs are
  for any set of such cells. `pyssl` is an ssl module without `set_groups`; with it, it
  would be another openssl.
- `AcmeClient`: three orders allow an authorization to be reused twice and an error
  after a success; three polls (50 in the code) have a first, a middle and a last;
  three faults hit one issuance or all.
- `Cbom`: both files and endpoints name the same assets in different ways (curve
  aliases, the hybrid group as rule and as list, one subject with two serials). A DSA
  certificate stands in a file before and in one behind the Java source that names DSA;
  certificates with keys of each branch of `public_key_asset` and answers without a
  group, a signature type or a certificate are among the contents and answers.
- `Backlog`: graphs of three nodes include self-loops, two cycles that share a
  node, and nodes that wait for a cycle; four nodes add the diamond and two
  disjoint cycles. One duration is zero; each calendar entry binds one asset; four
  streams are enough for every node, one and two are not. `SlackUnit = 2` makes
  nodes of different slack tie.
- `Labs`: trees of heights 2 and 3 have inner nodes of both hands; hashes that
  differ in one byte, all low or all high, put the checksum to its extremes at every
  Winternitz parameter; two names for everything that two parties could confuse.

### Fairness

- `CommittedKey`: the process runs a call it has begun (`WF` on `Call`), an absent
  handle is opened again (`WF` on `Open`: the restart of statefail.py's scene 3),
  and a caller able to ask for a signature again and again does
  (`SF` on `TakeReserved \/ Reserve`; strong, since faults interrupt it). Nothing
  is assumed about faults or about `FlushDirectory`.
- `Envelope`: a call in progress goes on (`WF`). That somebody keeps calling
  `rekey` from k to n is the hypothesis of `RetriedRekeyCompletes` for that pair
  (`SF` on `StartRekey(k, n)`: the single thread may be busy with another call
  each time one looks); no other call is assumed.
- `SshObserver`, `TlsObserver`: each thread runs while it can (`WF` per thread).
  Sockets carry a timeout (sshobserve.py:179 and 206, tlsobserve.py:205), so a
  `recv` returns or raises; that is why the thread of a silent endpoint is not stuck.
  Endpoints have no fairness. The lab's relay has no timeouts, so `ObserveEnds` of
  `SshObserver` claims an end for it only if both endpoints close.
- `AcmeClient`: the client runs (`WF`) unless it waits for an answer. Its opener has
  no timeout (acmeclient.py:53), so a request that is neither answered nor refused
  (`Waits`, one of the faults) holds it for good; `IssuingEnds` excepts that. The CA has
  no fairness: a poll may always find "pending".
- `KillDrill` runs to its end (`WF`); like the remaining modules it claims no liveness
  in a run.

### Deadlock

Deadlock is checked in every run but `labs`, where a calculation has no next step
and bounded builds and commands run out. The programs that return have an explicit
final step (`Joined` in the observers, `PlanEnded`, `Done` in
`AcmeClient`, `Finished`
in `Backlog`, `Refuse` for an exhausted key); the others always have a call left to
make.

## 4. Proofs

Everything below holds for every value of the constants under the named
`ASSUME`s of the component modules: sizes are naturals, markers such as `NoFile`
and `Torn` are not data, and the inputs are what the code's own checks let through
(each section names those that matter). TLC evaluates these assumptions in each
run.

### CommittedKeyProofs

- `TypeCorrect`: `Spec => []TypeOK`.
- `NeverReused`, `WriteAhead`: assuming `Exclusive` (one handle open at a time),
  `[]NoIndexReuse` and `[]ReservedBeforeReleased`.
- `Refinement`: assuming `Exclusive`, `Spec` implements `OneTimeKeys`.
- `AlwaysReadable`: `Spec => []StateReadable`, with any number of objects.
- `CrashBound`: assuming `Exclusive`, `[]CrashCost`.

`NoIndexReuse` is not inductive: it says nothing of the index a handle will use
next. The strengthening `Intact` ties memory to disk: an idle handle has the key
of the file, its boundary is not beyond the stored one, its `q` is beyond every
use; a handle in `_persist` leaves a `tmp` that, if renamed, covers everything
used so far; a file that is not loaded is ahead of everything used. `Inductive`
is typing together with `undone \/ Intact`, since a lost rename breaks the
relation for good: that is exactly the case `key_flush` exhibits. `Exclusive` is
needed as well: a second object signs with indices the first has used. Each of
these hypotheses is about how the class is deployed, and neither is enforced by it.

`AlwaysReadable` needs neither. `Readable`: the one thread of the process syncs the
`tmp` it wrote before it renames it, so `file` and `durable` hold whole contents only,
however many objects there are. `CrashBound` rests on `Sized`: what a handle holds,
from its first unused index to the boundary it stored or is about to store, is at most
its reservation.

### EnvelopeProofs

- `TypeCorrect`: `Spec => []TypeOK`.
- `ReplacedKekIsSafeToShred`: `Spec => []RetiredIsSafe`.
- `LossBound`: `Spec => []OneLossPerFault`.
- `ShreddedForGood`: `Spec => NeverRevived`, which no run checks by itself: it is part
  of what the refinement says.
- `Refinement`: `Spec` implements `KeyedStore`.

`RetiredIsSafe` needs `LoopInv`: behind the position of a running `rekey` no
header is under the old KEK. `OneLossPerFault` needs `DeksInv` (no DEK of a body
is ahead of the counter, so a DEK written next is new). `DamageStep` compares
the set of damaged objects before and after a step: a step without an OSError
adds none, one with an OSError adds at most the object at the loop's position.
The bound on the cardinality follows from the set
inclusion by the library's finite-set theorems.

`Refinement` needs `WritingInv` beside `Inductive`: between header and body, the header
is under the KEK of the call, that KEK exists, and the old body is none the new DEK
opens, so that an OSError there leaves the object closed and not half replaced. That
`Complete` finds its KEK not retired is `RetiredIsSafe`, and that `Retire` finds
nothing under the old KEK is `LoopInv` at the end of the loop. A `rekey` re-wraps
headers whose body is lost as well (`MoveNothing`): the caller sees nothing of it but
that the new KEK is in use again.

### BacklogProofs

- `TypeCorrect`: `Spec => []TypeOK`.
- `OrderCorrect`: `Spec => []OrderIsExact`.
- `DeadlinesCorrect`: `Spec => []LatestPlanIsFeasible`.
- `ScheduleCorrect`: `Spec => []ScheduleIsFeasible`.
- `CycleCorrect`: `Spec => []CycleIsReal`.
- `StreamsCorrect`: `Spec => []StreamsAreUsed`.
- `CriticalCorrect`: `Spec => []CriticalPathBinds`.

`Inductive` is the conjunction of the loops' invariants. `OrderInv`: `indeg`
counts the dependencies that are not placed, `ready` is what has none left, and
nothing placed is blocked; when `ready` is empty, the nodes left over each depend
on another one of them, so they are all of `Blocked`. `DeadlineInv`: behind its
position the pass has reached the fixed point of `Deadline`, and a step disturbs
none of what is behind it, because dependents come later in the order.
`StreamInv`: a stream is free when all of its work is finished.

The code takes minima of lists that it knows not to be empty. That a finite set
of integers has a least and a greatest element (`LeastIsLeast`,
`GreatestIsGreatest`) is proved without induction over an operator: among the
subsets {y \in S : y =< x} one is minimal by inclusion, since the strict subsets
of a finite set are well founded, and it can only be that of a least element.

`CycleCorrect` rests on `WalkInv`: each node of `path` waits for the next, and only
its last can have been there before. A stuck node has a stuck dependency, so the walk
never ends in the air. `StreamsCorrect` rests on `UsedInv`: nothing finishes later
than the sum of the durations done so far, and, when every node has a stream to
itself and its deadline leaves it its time, nothing finishes after its deadline; a
stream that is free later than the first day has a node of its own, so with fewer
nodes done than streams one is free at once. The sum is a fold of the community
modules, which is a recursive function: its defining `CHOOSE` is unfolded and shown
to be the number of (node, day) pairs, whose cardinality the library's theorems
handle. `CriticalCorrect` does the same with the two loops of `critical_path`, which
are recursive functions of the number of rounds: `Iterates` says what such a function
is, and `BackInv` and `WholeInv` are invariants of the rounds, by the least round
that breaks them.

The assumptions are on the input: dependencies are nodes (`load` raises
otherwise), durations are not negative, the capacity is positive, an asset has
a known function. The code checks the first and, when it scores, the names of
the functions; the others are left to the author of the file.

### AgilityProofs

- `TypeCorrect`, `ChannelsAreSafe`, `DirectionDoesNotMatter`: `Spec` of
  `AgilePolicy` implies `[]TypeOK`, `[]ChannelsKeepTheRules` and
  `[]ConnectivityIsSymmetric`; `OnlyUndoWidens`: `Spec => OnlyRollbackOrLoadWidens`.
- `DrillTypeCorrect`, `DrillPromise`: `DrillSpec` of `KillDrill` implies
  `[]DrillTypeOK` and `[]DrillKeepsItsPromise`.
- `PlanHonesty`, `DrillPromiseInPlan`: `PlanSpec` of `TestPlan`, which runs the drill,
  implies `[]PlanIsHonest` and `[]DrillKeepsItsPromise`.

The lemmas on the rules come first: `Negotiated` chooses something exactly when both
ends have something usable in common, and the first of the caller's order that is
(`EventIsRight`). `Inv` then says that every object and file is valid and that each
document of a `previous` chain differs from the next by one more kill: without it a
rollback could bring back anything. `DrillInv` names for each step of the drill,
from the policy `d` it started with, what is loaded, what the file holds and how many
channels were opened (`Stage(d)`); a drill can die only where it is `Hopeless`, which
is why a policy that connects with itself and has a second KEM survives it. `PlanInv`
adds what of the sources has been read and that a bad one has its row.

The documents are those that `Policy.load` lets through (`Validate`), and the days
those of the calendar.

### SshObserverProofs

- `TypeCorrect`, `KexIsNegotiated`, `SummaryStaysCausal`, `ChunkingDoesNotMatter`:
  `Spec` implies `[]TypeOK`, `[]KexAsNegotiated`, `[]SummaryIsCausal` and
  `[]ChunksDoNotMatter`, for all offers that are lists of at least one name, any
  number of lines before the identification, and any bound on the reads of an audit.

`SInv` has an invariant for each of the reasons the properties hold: where a parser
is in its stream (`Parser`), that it leaves no whole unit in its buffer (`Flushed`),
that an endpoint answers only what the relay has passed on to it (`Causal`), and that of
two threads the one that gets past its KEXINIT last finds both lists and negotiates
(`KexOK`): the list of key exchanges is assigned first, and this is the argument that
fails for the host keys. `Chunks` and `Dropped` count the reads that a server's lines
can cost its parser; they are what makes `SummaryIsCausal` true up to two lines and
not with three (section 5).

### TlsObserverProofs

- `FieldsStayRight`, `CellStaysTrue`, `FlightStaysExact`: `Spec` implies
  `[]FieldsAreRight`, `[]CellIsTrue` and `[]FlightIsExact`, for every matrix, every
  choice of groups, any number of key shares and any cut.

`TInv` describes both wires: which record may follow which (`ServerWire`, `ClientWire`),
that the share a server selects is from the client's last hello (`Answered`), that the
fields are those of the last hello if it came in one record (`HelloOK`) and those of the
server's last message (`AnswerOK`), and that the list of records has each direction in
order and each record behind those its sender had received (`Listed`, `Causal`). The
last one holds although parsing and appending are two steps, because a record is passed
on only after it was appended. `FlightIsExact` is then about the list alone. The rest of
a split hello may be read into the server's fields, but it is parsed before it is passed
on, so the server has not answered it yet and its ServerHello overwrites what was read.

### AcmeClientProofs

- `RowsStayTrue`, `FaultFreeSucceeds`: `Spec` implies `[]RowsAreTrue` and
  `[]FaultFreeRunSucceeds`, for every number of certificates, polls and faults.

`AInv`: there is a row for each order behind, those ahead do not exist at the CA,
the client's next request bounds how far the CA is with this one, and without a fault
no authorization or order of a running client is invalid.

### LabsProofs

- `HierarchyCorrect`: `LabsSpec => []CertsOkMeansUsable`, for any number of builds.
- `SecretsCorrect`: `LabsSpec => []SecretsAgreeExactly`, for any epochs, key pairs
  and encapsulations.
- `AuditCorrect`: `LabsSpec => []AuditIsRight`, for any tokens, and any header that
  names the mechanisms as the shipped one does.
- `ChecksumsCross`: `LabsSpec => []DigitsCross`, for any hashes of 32 bytes.
- `VerifiesCorrect`: `LabsSpec => []VerifiesExactly`, for trees of any height, any
  messages and any `Digest` without collisions on what is signed.
- `ReferencesStay`, `MergesOnlyAdd`: `Spec` of `Cbom` implies `[]ReferencesResolve`
  and `MergeOnlyAdds`, for any tree of files, findings and endpoints.
- `ScansAreExact`: `Spec => ScanIsExact`, with no assumption on what levels the rules
  give.

`FilesInv`: files are written in order and by one build from the first to the last, so
a file that was opened and not written has nothing behind it, and `certs_ok` asks for
one that is written last. `PskInv`: the kernel of an end holds what it encapsulated,
or what it decapsulated from a ciphertext that the other end made; the calculations
need no invariant but the range of their input, and the rest is the algebra of the
symbolic terms.

`ChecksumsCross` is the argument WOTS rests on. The two nested sums of `checksum` are
folds of the community modules; they are unfolded, and each is the number of pairs
`(x, n)` with `n` at most the x-th term (`Boxes`), so that sums can be compared by
inclusion of finite sets (`SumsCompare`). If no digit of Q is below R's, nothing Q's
bytes lack exceeds what R's lack, so Q's sum is not greater; but the last digits,
which `ChecksumTells` reads back into the sum for each of the four widths (the shift
`ls` has just the bits that the last digit takes from its byte), make it no smaller.
So the sums are equal, each byte lacks the same, and Q = R (`NoneBelow`). `Coef` is
connected with the digits of one byte by `CoefIsDigit` and `DigitsOrder`. The provers
know no powers, which is why `Pow2` is a recursive function of the module; what it is
is proved too (`Pow2Is`).

`VerifiesCorrect` has two hypotheses on constants that the others do without.
`DigestAssumption`: two different messages or randomizers have different digests at
one index of one key, which is what collision resistance of SHA-256 gives lms.py, and
all that the symbolic model leaves to be assumed. `TypesAssumption`: the LMS types are
numbers and the LM-OTS types among those of the code's table, one of each at least.
From there:

- `LmsTree` is filled from the leaves up, by a fold. `TreeIs` says by induction on the
  rounds that it is a tree of hashes over the public keys of the leaves, `NodesAre`
  which nodes lie between a leaf and the root.
- Every node is a term made of its number and its two children, so what is hashed
  along a path arrives at the root exactly when it starts from the leaf and the path
  holds the siblings (`PathIs`). `VerifyIs` says with it what `LmsVerify` accepts.
- A chain of hashes keeps where it began (`ChainKeeps`), so it arrives at the public
  end exactly when the signer's and the verifier's digits are the same
  (`ChainArrives`): `OtsVerifies` and `OtsRejects`. Different hashes have different
  digits somewhere (`NoneBelow` again). An `"advanced"` signature,
  one chain of which was taken a step on, is the case for which the checksum exists: no
  other hash has digits that are nowhere below those that were signed (`OtsAdvances`).
  Another index or another key has chains that start elsewhere (`NeverElsewhere`).
- `AlteredVerifies` puts these together for every alteration; `HssCaseIs` repeats the
  argument for a signed key and the signature under it.
- Tokens and channels are terms that verify only what they were made of (`JwsCaseIs`,
  `ChannelCaseIs`). `KmsCaseIs` goes through the ways the four calls may end: `live`
  returns exactly when none failed and the signature is of the key it fetched, and
  then the key is scheduled for deletion; a key that was made and is not has lost its
  `create_key` reply or its `schedule_key_deletion` call.

`CbomInv` says that every component of the document is filed once, refers to
components that are there, and was written from a `Good` asset: an algorithm has no
version, a certificate no notes, and so on. `Component` keeps only the fields of a
component's type, so this is why an asset that is written, loaded and written again is
still the same. The loops over files, findings and endpoints are folds over lists:
`Runs` says what a fold passes through, and an invariant of its rounds what it ends
with. Where rules and certificates give one key different levels, the first finding
decides and `Add` keeps it: the fold of the first file that has the asset ends with one
of its levels, and no later file changes it. For hybrid groups every finding gives the
level of `PQ_GROUPS`, provided no certificate has a signature or a key that is named
like one (`Unmixed`, part of `EstateAssumption`: the table names TLS groups and SSH key
exchanges).

### What the proofs cannot reach, and how far they get

Recursion is within reach as long as it is a recursive function or a fold: its
`CHOOSE` is unfolded, a function that satisfies the equation is exhibited, and what it
is like follows from the least argument at which it is not (`LeastNumber`) or the
smallest set (`WFMin`). The induction theorems of the library, which take an operator,
are not used.

Only model-checked is liveness (`EveryIndexSpent`, `RetriedRekeyCompletes`,
`ObserveEnds` of both observers, `IssuingEnds`): the installed TLAPS has no rule for
`ENABLED` that would reach it. Every safety property that a run expects to hold is
stated by a theorem.

## 5. Findings

Each is a property taken from the repository's own words that TLC refutes.

1. `key_flush`: `_persist` does not fsync the directory after `os.replace`
   (lms.py:269), so "durable *before* any signature" (lms.py:276) does not hold
   across a power cut.
2. `ssh_hostkey`: a host key negotiated against a list that the other thread has
   not assigned yet can overwrite the right result (sshobserve.py:76-77, 135).
   The key exchange itself is immune, since its list is assigned first
   (`KexAsNegotiated`).

Differences between text and code, and limits of the programs, met on the way. They
are in the models, and the properties are stated so that they hold beside them; none
has a run of its own.

- lms.py: a second object on the same state file works with the boundary it read in
  its constructor, although `q` is "read back before every signature" (lms.py:17-18);
  two objects reuse an index.
- agile.py: a downgrade is said to be "below the strongest algorithm that was on offer
  from the peer" (13-14), while the code compares with what both policies allow (151,
  168; test P5 in tests/test_ch11.py agrees with the code). `Policy.load` starts with no
  `previous`, although "the loader keeps the previous version" (agile.py:11-12); the
  drill sets it by hand. `kill()` "writes a new policy version" (agile.py:17-18) while
  `with_kill` makes an object and writes nothing. A date "from that date"
  (policy-v3.yaml:24-25) is still allowed on that day (`now > d`, agile.py:114). Version
  numbers are not unique: kill, rollback, kill another name gives two documents with one
  version.
- sshobserve.py: after a line before the identification `feed` returns with data in
  its buffer (113-114); if nothing more arrives, the audit times out on a KEXINIT it
  already has. Since each such line costs a chunk, a server that sends three of them
  can get a client through the whole exchange while the parser of the server's side
  has not reached its KEXINIT: ssh has ended with 0 and the row of `kexlab.py` is
  incomplete. The proof of `SummaryIsCausal` failed here, and TLC showed it with three
  lines; the property claims a complete row for at most two. Encrypted packets are
  "only counted" (7-8) while `feed` returns before counting them. `audit_host` reports
  a host it gave up on as one without post-quantum key exchange.
- kexlab.py: its sockets have no timeout, so its relay thread outlives the join if an
  endpoint stays silent; the 25-second limit of the ssh process ends the lab with an
  exception that leaves sshd running.
- tlsobserve.py: with a HelloRetryRequest the Summary combines the size of the first
  ClientHello with the key shares of the second. A hello split over two records is not
  put together: its size stays 0 or is that of its first record, and its key shares are
  unset, or right if the cut is in the data of the last one or behind it; if it is the
  second hello, they may also stay those of the first, and if its rest begins like a
  ClientHello, they are nonsense.
- interop.py: when the observer needs more than 15 seconds (153), a completed handshake
  is printed as OK() without a group, whatever was negotiated.
- acmeclient.py: an exception that is not a RuntimeError (a lost connection, a
  timeout in polling) leaves `main` without writing the rows of what was issued; a CA
  that falls silent holds the client, since its opener has no timeout.
- cbomscan.py, tlsmerge.py: a merge into a CBOM drops its library components; evidence
  of an endpoint that has changed stays; merging again repeats occurrences in the
  document (they are a set in the model). cbomdiff.py compares by "parameter set"
  (line 3), but certificates by name only.
- cbomscan.py: a certificate with a key that is not RSA, elliptic, Edwards or ML-DSA
  files it without a quantum level (226), while rules.yaml:97-105 gives DSA and DH level
  0. A DSA key has the level of whichever file comes first, and cbomdiff.py, which
  counts as vulnerable what has level 0, lists it or not accordingly.
- kms_mldsa.py: "schedules the key for deletion" (12-13; 79) does not hold when the reply
  of `create_key` is lost, since the `try` begins behind it (48-51), nor when the call in
  the `finally` fails (62), which also discards a result that was verified.
- rules.yaml:97-100 (ch03): the Java rule for `KeyPairGenerator` gives every algorithm
  it names quantum level 0, ML-KEM and ML-DSA among them.
- testplan.py: a source that is absent is SKIP, or no row at all, and the plan still
  exits 0; section 7 may show PASS from an older drill.json beside the FAIL of section
  6.
- interop.py: `certs_ok` accepts a chain.pem that was opened and not written.
- backlog.py: a dependent that is stuck in a cycle keeps its initial deadline of 2099
  (37, 50, 146), so its urgency does not reach its dependencies, contrary to step 3
  of the docstring (13-15). "Anything left over is in a cycle" (11) while a node that
  merely waits for a cycle is left over as well. The backward extension of
  `critical_path` only finds nodes within the rounding of the slack.

## 6. Plan

Done: every component of the inventory that has behaviour, the calculations, a proof
of every safety property the runs expect to hold, and two refinements of abstract
specifications.

Left: the parts of `pkilab.py` that are not modelled, the configuration files of
openssl and the fields of a certificate that come from them.
