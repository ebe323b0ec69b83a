# Formal models of fiudp-cli

TLA+ models of the FIUDP sender, the TLC runs that check them and proofs that
TLAPS checks. Source paths are relative to the repository root.

## 1. The system and its parts

`fiudp-cli` is a one-shot program. An invocation loads a key, takes a session
id from a counter file, reads a frame, cuts it into shards, adds Reed-Solomon
parity, encrypts every shard in place and sends one UDP packet per shard. No
packet is ever acknowledged or sent again. The program is sequential; what makes
it hard is what several invocations share on the host (the key file and the
counter file), where an invocation may die, and the arithmetic of frame
layouts.

| Part | State it keeps | Operations | Interacts with | What makes it correct |
| --- | --- | --- | --- | --- |
| session counter, `src/session.rs` | the 2-byte file `<key>.session_id` | `next`: `fs::read`, `checked_add`, `fs::write` | other runs, through the file | ids never repeat, never go down, and a torn file is never taken for a missing one |
| key loading and cipher, `src/crypto.rs` | the key file | `read_key`, `derive_nonce`, `encrypt_in_place` | the operator, who replaces the file | a key is used whole; no nonce twice under one key |
| run, `src/lib.rs` | none of its own | key, then id, then socket, then pipeline | all parts | a session carries one frame; sessions reach the wire in order |
| send pipeline, `src/sender.rs` | shard buffers, packet list | read, pad, FEC, encrypt, chaos, transmit | cipher and encoder share its buffers | every packet can be opened and means what its header says; nothing is sent if anything before the socket fails |
| FEC, `src/fec.rs` | none | `encode` | pipeline's buffers | parity is computed from plaintext; counts are ones the code supports |
| packet format and types, `src/protocol.rs`, `src/types.rs` | session metadata | `build_aad`, `write_packet`, `pad_to_shard_size` | | padding loses no byte, headers fit their fields, fields do not overlap and are where the receiver looks |
| configuration, `src/config.rs` | validated options | `try_from`, builder, `parity_shards`, `read_all` | | percentages within 0..100, ceiling arithmetic, both ways to a `Config` agree |
| errors, `src/error.rs` | none | | | each ends a run or a build |
| command line, `src/main.rs` | none | parse, `try_from`, `run` | | |
| terminal (SPEC.md 3.5), not in this repository | last accepted session, shards held | receive, decode, display | the packets, over a lossy network | frames displayed are frames sent, once, when enough shards arrive |

Hard behaviours: two runs interleaving on the counter; a run killed between the
truncation and the write of the counter; loss of power (nothing is synced); the
key being replaced, or the counter removed, while a run is under way; an input
that never ends, waited for with a session id in hand; the counter's end at 65535;
boundaries of padding, parity, u16 and GF(2^8); errors in the middle of a burst.
`PROJECT.json` lists each at the line where it bites, with the property that
covers it.

## 2. Modules

    SessionCounter            an atomic counter: what next() promises
        ^ implemented by
    SessionStore              next() as system calls on a file, many runs
        ^ instanced by
    Fiudp ----------------+   run(): key, id, socket, packets; the operator
                          |     (which shards a run sends is left open)
                          | implements
    Sharding <- Burst ----+   send(): one run's pipeline in detail
                          v
                    Transmission   what the sender promises to the network
                          ^ instanced by
                    Delivery       that promise, a lossy network, a terminal

    KeyFiles                  which counter file goes with which key file
    Wire <- Invocation        packet bytes; options to Config to bytes

`Transmission` is where the host, the pipeline and the terminal meet. `Fiudp`
implements it for all runs of a host with the shards of a frame left open,
`Burst` for the shards of one run with the session left fixed, and `Delivery`
assumes nothing else of the sender.

| Module | Models | State and actions |
| --- | --- | --- |
| `SessionStore` | `session.rs` | `file` is the counter file, `disk` what would survive a power loss, `pc` and `next` the position and `next_raw` of each run. `ReadAndIncrement`, `RejectMalformed`, `RejectOverflow` are the three outcomes of lines 61-82; `CreateFile` and `WriteId` the two halves of `fs::write` (open with O_TRUNC, then write); `IoError` any failing call; `Crash`, `WriteBack`, `PowerLoss` the environment. |
| `SessionCounter` | its contract | one action, `Issue`: a run obtains an id above all issued ones. |
| `Fiudp` | `lib.rs` `run`, `read_key`, `derive_nonce` | `stage` is the statement each run is at, `key` what it loaded, `wire` all packets sent. The counter is an instance of `SessionStore`. `ReadFrame` is the wait for the input, `WriteUnlinked` the end of a write to a counter file removed meanwhile. `TruncateKey`, `RemoveCounter`, `WriteKey` are the operator, who is external and acts at any moment. The histories `exposed` and `stray` name the keys in use at a removal and the runs that read a counter with one. |
| `Sharding` | `pad_to_shard_size`, `parity_shards`, the u16 check, the code's limit | operators only |
| `Burst` | `FiudpSender::send`, `UdpPacketSender` | one action per statement of `send`, `Read` being those that wait for the input; `shards` are the buffers that encoder and cipher share, `ready` is `ready_packets`, `sent` what the socket took. |
| `Transmission` | what `run` guarantees of the packets | `wire`, all packets sent; one action, `Transmit`, sends a shard that may follow all packets before it (`MayFollow`). |
| `Delivery` | the packets' way, external | `wire` is `Transmission`'s; `lost`, the network's; `termKey`, `last` and `held` the terminal's key, persistent replay limit and shards in memory. `Receive` takes any packet that is not lost, again and in any order; `Display` decodes a session with enough shards; `Restart` loses memory; `Rotate` provisions a key and resets the replay limit. |
| `KeyFiles` | `SessionIdStore::new`, and `run` as far as files go | `files` is a directory of key and counter files by stem and extension. A run (`RejectKey`, `RejectCounter`, `Send`, `Tear`) is one step; `Provision` is the operator. |
| `Wire` | `protocol.rs`, `types.rs`, `derive_nonce` as bytes | operators only; buffers are functions from offsets to bytes. What a receiver reads uses the offsets printed in SPEC.md, not the code's constants. |
| `Invocation` | `config.rs`, and the header a run builds from its `Config` | `builder` is the `ConfigBuilder`; `Set` any setter with any value, `BuildFails`, `BuildPanics` and `Build` the ends of `build`, `Write` a packet. `asked` keeps the same options for `TryFrom(Args)`. |
| `MC*` | | instances for TLC |
| `*Proofs` | | theorems about the module they are named for; `InvocationProofs` builds on `WireProofs`, `BurstProofs` on `ShardingProofs` |

A run counts as having *obtained* its id when the two bytes are written: being
killed between that and the return of `next` is the same as being killed just
after it.

Data is abstracted to what the properties tell apart. A byte is its position in
the frame; a parity row names the buffers it was computed from; a ciphertext
names its nonce, AAD and plaintext; a key is a model value. A small operator
marked as a *fault* before a definition is a broken variant of it, against which
the properties were tried; no specification uses it.

## 3. What the runs check

| Run | Instance | Shows |
| --- | --- | --- |
| `store_serial` | 4 serial runs, ids up to 3 | `UniqueIds`, and `ImplementsCounter` (refinement), with kills and I/O errors at every system call and every initial file |
| `store_overlap` | 3 overlapping runs, ids up to 2, power loss, fair | `NoSkippedId`, `TornStaysTorn`; `CallReturns` |
| `store_race` | 2 overlapping runs | a violation of `UniqueIds` (finding 1) |
| `host` | 2 serial runs, 2 keys, 2 shards, ids up to 2, fair | `NonceOnce`, `SessionIsOneFrame`, `WireOrder` while the key is replaced and the counter removed at any moment; `ImplementsTransmission` (refinement); `RunEnds` |
| `host_order` | 2 runs | a violation of `EmptyInputKeepsCounter` (finding 3) |
| `host_overflow` | 2 runs, 2 keys | a violation of `RotationClearsOverflow` (finding 4) |
| `burst_options` | shards of 2 bytes, frames of 0..11 bytes, u16 limit 5, field of 4 elements, all chaos options | the seven safety properties of `Burst`, `WireIsAppendOnly`, `ImplementsTransmission` (refinement), `SendReturns` |
| `delivery` | 2 frames of 2 data shards and 1 of parity, 2 keys, 2 sessions, fair | `ShownWhole`, `ShownOnce`, `EnoughShardsSuffice` behind a network that loses, reorders and duplicates |
| `invocation` | bytes of 4 values, shards of 3 bytes, arguments on both sides of every limit | `ConfigInRange`, `WaysAgree`, `PacketReadsBack`, `NonceReadsBack` |
| `key_files` | 2 keys, 2 stems, 3 extensions, ids up to 3 | `SessionsIncrease`, `KeysSurvive` when keys share counters or lie where counters belong |
| `burst_fec` | the same as `burst_options` | a violation of `FecCountsGuarded` (finding 2) |
| `burst_order` | the same | a violation of `SentAsSealed` (finding 5) |

Deadlock is not checked: every run of the program ends (or waits for its input), and so does every
behaviour in which no further run is started.

**Bounds.** The counter has fewer values than needed for all runs from some
initial files, so it overflows; the initial file takes every content, absent,
malformed and full included (in `host`, every one a run may have left whole, a torn
one coming about on the way). Three runs are needed for the interesting
failures: one obtains an id, one dies and tears the file, a third must not start
over. In `Burst` the three limits (shard size 2, field 4, u16 5) are small and
distinct, so that frames on, just below and just above each limit occur, with
every ratio that rounds differently. Orders of a shuffled burst are tried for
three lengths only. In `host` two runs suffice to meet in an id under one key, and
two keys for a rotation between any two statements of a run (any number of both is
the subject of the theorems); it begins with one of the two keys (`HostInit`), which
are interchangeable. In `key_files` keys are symmetric; it checks no liveness. In
`Delivery` a session's shards can be too few, enough with or without parity, or all;
the two frames have one layout, so that nothing
but the session id keeps their shards apart; two sessions under two keys are
enough for a late packet, a replay and a rotation to meet. In `Invocation` a byte
has four values, which makes a u16 and a u32 small while every field can still
hold different bytes in each position. In `KeyFiles` the extensions are an
ordinary one, another one of the same stem, and the counter's own; of the stems
`psk` and `psk.bin`, the second is what the first would get if the extension were
appended and not replaced.

**Fairness.** Weak fairness of a run's own progress: the operating system keeps
scheduling a process that is not killed. No failing system call, no kill, no
action of the operator and no write-back is assumed ever to happen, so a key file
may stay truncated forever. A call on a file or a socket is assumed to return, with
success or an error, but a read of the input is not: `read_to_end` on stdin
(`config.rs:419-428`) waits until the program upstream closes the pipe, which no
scheduling makes it do. `ReadFrame` and `Burst`'s `Read` are therefore not fair, and
`RunEnds` and `SendReturns` say that the input is the only thing a run can wait for.
It does so with its session id consumed and the counter advanced. In `Delivery`,
which is external, the network delivers some packet as long as a deliverable one is
not lost, and the terminal decodes as long as it can; that the sender sends anything
is not assumed. Two or more runs are only assumed not to overlap where a constant (`SerialRuns`) says so; the code itself does not exclude it.

### Findings

1. `session.rs:8-10` calls `next` atomic. It is a read, a truncation and a
   write without a lock, and two overlapping runs get the same id, hence the same
   nonces. Serial use is a real precondition (see the theorems).
2. `error.rs:112-113` says invalid shard counts are guarded upstream. Only the
   u16 limit is; with parity, more than 256 shards fail in the encoder. At the
   default ratio that is any frame over 310800 bytes. Nothing has been sent then.
3. `lib.rs:169-170` reads the frame first. The code takes the session id first,
   so an empty frame consumes one of 65535 ids.
4. `error.rs:59-61` and `session.rs:32-33` say to rotate the PSK on overflow.
   The counter file is not tied to the key, so the overflow persists until the
   file is removed by hand, and it matters when: see below.
5. `sender.rs:186-191` has `send` encrypt a shard, send its packet and sleep before
   the next shard. The code encrypts all shards first (247-260), applies the chaos
   options and then sends (288-295). `PartialOnlyBySocket` and `WireIsAppendOnly`
   hold of the code's order; under the documented one a shard that cannot be
   encrypted would leave those before it on the wire.

**Removing the counter.** The counter belongs to a path, not to a key, so whoever
removes it under a key in use makes that key's ids come again. With the key file
still holding the key every later run repeats nonces; with a key file already
replaced, a run that loaded the old key (`lib.rs:198`) before the removal and reads
the counter (199) after it does. Nothing in the code prevents either, and no
property here says otherwise: such runs are `stray`, and the properties of the wire
are about the packets of all other runs (`Promised`); stated of all packets,
`NonceOnce` is false. What they do say, for a removal at any moment, is that no two
other runs meet in an id of one key: among them a run that has its id, one whose open
counter file is unlinked before it has written, and one that loads a key first used
after the removal. So a removal is safe, for every run, when no key is in use: the key file
is truncated and no run is between its key load and its counter read.

## 4. What is proved

For every set of runs, keys and indices, every counter width and shard size.

**Counter** (`SessionStoreProofs`, assumption `StoreAssumption`). `TypeCorrect`.
`NoSkippedIdHolds` by `CountInv`: each content the file can have, on disk or in
cache, is malformed, the initial one or an id already obtained; the property
alone is not inductive, since it says nothing of the file. `TornIsPermanent`.
With `SerialRuns` and no power loss, `SerialRunsGetUniqueIds` and the refinement
`SerialRunsImplementCounter` by `SerialInv`: at most one run is inside `next`,
the id it carries is the successor of what it read and above all ids obtained,
and the file bounds the ids obtained. The torn file is why the last part is
conditional: it says nothing about ids, but nobody reads it any more.

**Host** (`FiudpProofs`, assumption `FiudpAssumption`). `HostTypeCorrect` in every
environment. `RunsUseTheStore`: with the counter file never removed, each step of
`Fiudp` is a step of `SessionStore` or leaves it alone. With `SerialRuns` alone,
keys replaced and the counter file removed at any moment: `SessionsAreFrames`,
`NoncesAreUsedOnce`, `WireIsOrdered` and the refinement
`HostImplementsTransmission`, for the packets of runs that are not stray, all from
`HostInvariant`. Removal breaks the counter's own `SerialInv`, since ids come back;
`HostInv` therefore says per key what `SerialInv` says of all ids. A key is in use
(`InUse`) while the key file holds it or a run about to read the counter has loaded
it; the file bounds the ids under the keys in use that no removal exposed. A run
that carries an id to a file that may be gone meanwhile has it above those of its
own key and of the key file's (`CarriedIdIsFresh`), which makes its write a bound
again; if it writes to the removed file instead, its key is out of use or exposed
(`OrphansLeaveNoBound`). That a key never comes back (`KeysArePast`) closes the
induction: ids under a key out of use are never taken again, so nothing need be
known of them but that they differ. Past the counter a run has the greatest id of
its key, and a packet carries its run's id and key; that a run turns stray before it
sends anything makes a stray step a stutter of the promise.

**Pipeline** (`BurstProofs`, assumptions `ShardingAssumption` and
`InputsAssumption`). The seven safety invariants of `Burst`, `WireIsAppendOnly`
(`AppendOnly`) and the refinement `BurstImplementsTransmission`, by `BurstInv`. It follows the buffers through
`send`: before the encoder each data buffer is its chunk, while shards are sealed
those not sealed yet hold what a receiver expects at their index (`ShardsInv`, the
fact that parity is computed before any buffer is overwritten), and from the
first packet on `ready` holds packets of the plan, each at most once (`ReadyInv`).
`PacketsOpen` says nothing of buffers and so is not inductive; `NoncesDiffer` is
kept through drops and shuffles because both select positions of a sequence
without repetition. `CleanBurstIsWhole` and `BurstLossIsRecoverable` rest on
`PaddingIsLeast` and `ParityIsCeiling`: the first on the chunks covering the frame,
the second on a block within the ratio's share being no longer than the parity.

**Terminal** (`DeliveryProofs`, assumption `DeliveryAssumption`). `DisplaysAreWhole`
and `DisplaysOnce` for every network and every sender that keeps `Transmission`,
by `TerminalInv`: on the wire, two packets share a frame exactly when they share
key and session (all that is used of the sender), and each display is of a
session that is past, at most `last` under the terminal's key or under a retired
one. `ShownOnce` needs this second part since a rotation resets `last`. With
`HostImplementsTransmission` this is the chain from the counter file to the
display: frames are displayed once and whole if runs do not overlap and none is
stray.

**Key files** (`KeyFilesProofs`, assumption `KeyFilesAssumption`). `SessionsGoUp` and
`KeysAreSafe`, by `KeyFilesInv`: the file at the place of a key's counter is not
absent once an id was given out under the key, and while it is a counter it has
reached that id, whichever keys count in it. A torn file or a key in that place
is refused, and no run makes it a counter again.

**Invocation** (`InvocationProofs`, assumptions `WireAssumption` and
`InvocationAssumption`, which says that arguments are of the types `config.rs` and
`types.rs` give them). `PercentagesInRange`, `SameConfig`, `InvocationReadsBack`,
`InvocationNonce`, for every order and repetition of the builder's calls, by
`InvocationInv`: each field is untouched or holds what the last call for it
stored, and packets are written for the result. Their bytes are the subject of
`WireProofs`.

**Bytes** (`WireProofs`, assumption `WireAssumption`). `PacketsReadBack`: a receiver
that uses the table of SPEC.md 3.4 reads back the header, tag and ciphertext a
packet was written from. `NonceIsDerivable`: the nonce follows from the packet.
`NonceIsInjective`. They rest on the division lemmas for big-endian numbers and on
the layout of the AAD and of the packet, each computed once from the chain of
copies.

**Layout** (`ShardingProofs`). `PaddingIsLeast`, `ParityIsCeiling`,
`CastsAreExact`.

Every safety invariant, action property and refinement that a passing run checks
is a theorem. Only model-checked are the liveness properties `CallReturns`,
`RunEnds`, `SendReturns` and `EnoughShardsSuffice`: weak fairness brings in ENABLED,
which the prover does not handle. The five violations are counterexamples and
need no proof. That overlapping runs are excluded (`SerialRuns`) is a hypothesis
the code does not enforce; finding 1 shows that it cannot be dropped. That a host
does not lose power is one where a theorem says so, for the same reason: nothing
is synced.

## 5. Not modelled

The cipher and the field arithmetic, which are other crates'; the inter-packet
delay, which has no effect on any state; clap's parsing; `main.rs` (three calls
in a row and the exit code); the text of errors. Of the terminal, which is not part
of this repository, wake-ups and the optional receipts of SPEC.md 3.6: the sender
listens for nothing. `KeyFiles` leaves out an operator who stores one key under
two stems: it then has two counters and repeats every id, by construction.

## 6. Plan

What is left is to prove more, in this order.

1. The safety half of the liveness properties: for each of `SessionStore`, `Fiudp`
   and `Burst` a measure that every step of a run's own progress lowers and no
   other step raises, so that only "a progress step is possible" rests on TLC.
2. `Fiudp` against `KeyFiles`: a run's steps between the read of the counter and
   its last write amount to one `Send` or `Tear`.
