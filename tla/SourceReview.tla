------------------------------ MODULE SourceReview ------------------------------
(***************************************************************************)
(* One generated dataset from the first image to the training that reads   *)
(* it: unrender/data_gen/generate.py, split_dataset.py, provenance.py and  *)
(* review.py, the preflight and the source gate of modal_train.py, and the *)
(* reads of unrender/train/sft_lora.py.                                    *)
(*                                                                         *)
(* Files are tied together by digests: the manifest by the receipt of the  *)
(* generation, the split files by the receipt of the split, both by the    *)
(* packet of the review, the packet by the decisions.  Nothing locks the   *)
(* directory: files are edited, and whole datasets made again, between two *)
(* reads of a call that trains on them, those of one check included:       *)
(* require_source_review reads the split (JudgeRows), the packet           *)
(* (ReadPacket), the decisions (ReadReview) and, for the digest on its     *)
(* receipt, the split once more.                                           *)
(*                                                                         *)
(* Abstractions.  Bytes are version numbers, a digest is the version of    *)
(* what it was taken of, and bytes that were replaced do not come back.    *)
(* The reads within one verify_dataset, read_split or _packet happen at    *)
(* one moment: digests tie each of them to the others.  All images and     *)
(* labels are one artifact, the three split files are one, and a decision  *)
(* covers them all: the gate takes a whole split or nothing.  The ids of   *)
(* charts are the same in every dataset, and so is the configuration of    *)
(* the processor.  train() also asks before it owns its output and forgets *)
(* the answer: without that check, which is left out, more calls get by.   *)
(***************************************************************************)
EXTENDS Integers

CONSTANTS
    Writers,      \* processes that generate and split
    MaxVersions   \* bound of the model: versions of files and of decisions

ASSUME SourceAssumption == MaxVersions \in Nat \ {0, 1}

Version == 0 .. MaxVersions    \* 0: the file is not there

VARIABLES
    bundle,       \* the files of the dataset
    writer,       \* where each writer is, and what it has in memory
    gate,         \* the call that trains: where it is and what it has read
    fresh,        \* the last version that was used
    approved,     \* history: what was in the bundle when it was found eligible
    consumed      \* history: the rows and artifacts training has read, and whether
                  \* the receipt they were read under names the rows that were judged

sourceVars == <<bundle, writer, gate, fresh, approved, consumed>>

Status == {"none", "working", "complete"}

Rows == [id: Version, images: Version]
NoRows == [id |-> 0, images |-> 0]

Packet == [manifest: Version, rows: Version]
NoPacket == [manifest |-> 0, rows |-> 0]

\* generation.json, manifest.jsonl, images and labels, split.json, the split
\* files, review/packet.json and review/review.json.
Bundle == [generation: [status: Status, manifest: Version], manifest: Version,
           artifacts: Version, split: [status: Status, manifest: Version, rows: Version],
           rows: Rows, packet: [status: Status, value: Packet],
           review: [packet: Packet, eligible: BOOLEAN, id: Version]]

NoBundle == [generation |-> [status |-> "none", manifest |-> 0], manifest |-> 0,
             artifacts |-> 0, split |-> [status |-> "none", manifest |-> 0, rows |-> 0],
             rows |-> NoRows, packet |-> [status |-> "none", value |-> NoPacket],
             review |-> [packet |-> NoPacket, eligible |-> FALSE, id |-> 0]]

\* require_source_review returns the digests of the rows, packet and review.
Receipt == [rows: Version, packet: Packet, review: Version]
NoReceipt == [rows |-> 0, packet |-> NoPacket, review |-> 0]

\* The call that trains: pc is where it stands, and check is the last thing the
\* review it asks for there has read: the rows it judges, the packet, the
\* decisions.  rows are what load_records has returned.
Gate == [pc: {"idle", "submitted", "claimed", "checked", "loaded", "training"},
         check: {"none", "rows", "packet", "review"},
         judged: Version, packet: Packet, review: Version, receipt: Receipt, rows: Rows]
NoCallYet == [pc |-> "idle", check |-> "none", judged |-> 0, packet |-> NoPacket,
              review |-> 0, receipt |-> NoReceipt, rows |-> NoRows]

Consumed == [judged: BOOLEAN, rows: Version, artifacts: Version]

SourceTypeOK ==
    /\ bundle \in Bundle
    /\ writer \in [Writers -> [pc: {"idle", "empty", "generating", "drawn", "splitting", "split"},
                               rows: Rows, manifest: Version]]
    /\ gate \in Gate
    /\ fresh \in Version
    /\ approved \in SUBSET [rows: Version, artifacts: Version]
    /\ consumed \in SUBSET Consumed

Idle == [pc |-> "idle", rows |-> NoRows, manifest |-> 0]

\* A dataset that was generated and split earlier, and not reviewed yet.
MadeBefore ==
    [NoBundle EXCEPT !.generation = [status |-> "complete", manifest |-> 1],
                     !.manifest = 1, !.artifacts = 1,
                     !.split = [status |-> "complete", manifest |-> 1, rows |-> 2],
                     !.rows = [id |-> 2, images |-> 1]]

SourceInit ==
    /\ \/ bundle = NoBundle /\ fresh = 0
       \/ bundle = MadeBefore /\ fresh = 2
    /\ writer = [w \in Writers |-> Idle]
    /\ gate = NoCallYet
    /\ approved = {} /\ consumed = {}

NewVersion ==
    /\ fresh < MaxVersions
    /\ fresh' = fresh + 1

-----------------------------------------------------------------------------
(* What the checks accept                                                  *)

VerifyDataset(b) ==
    /\ b.generation.status = "complete"
    /\ b.generation.manifest = b.manifest
    /\ b.manifest = b.artifacts

ReadSplit(b) ==
    /\ VerifyDataset(b)
    /\ b.split.status = "complete"
    /\ b.split.manifest = b.generation.manifest
    /\ b.split.rows = b.rows.id

\* _packet: the packet is of the dataset and of the split that are there.
PacketStands(b) ==
    /\ VerifyDataset(b)
    /\ b.packet.status = "complete"
    /\ b.packet.value = [manifest |-> b.generation.manifest, rows |-> b.split.rows]

\* The decisions are about packet p, and find every row eligible.
ReviewAccepts(b, p) == b.review.packet = p /\ b.review.eligible

\* The split and the audit of the processor are there to be read again.
CanBeNamed(b) == b.rows.id # 0 /\ b.packet.status # "none"

-----------------------------------------------------------------------------
(* Writers                                                                 *)

WriterAt(w, pc) == writer[w].pc = pc
WriterTo(w, pc) == writer' = [writer EXCEPT ![w].pc = pc]

StartGenerate(w) ==
    /\ WriterAt(w, "idle")
    /\ bundle = NoBundle
    /\ WriterTo(w, "empty")
    /\ UNCHANGED <<bundle, gate, fresh, approved, consumed>>

\* Exclusive create is the ownership claim.
ClaimGeneration(w) ==
    /\ WriterAt(w, "empty")
    /\ IF bundle.generation.status = "none"
       THEN /\ bundle' = [bundle EXCEPT !.generation.status = "working"]
            /\ WriterTo(w, "generating")
       ELSE WriterTo(w, "idle") /\ UNCHANGED bundle
    /\ UNCHANGED <<gate, fresh, approved, consumed>>

WriteArtifacts(w) ==
    /\ WriterAt(w, "generating")
    /\ NewVersion
    /\ bundle' = [bundle EXCEPT !.artifacts = fresh']
    /\ writer' = [writer EXCEPT ![w].pc = "drawn", ![w].manifest = fresh']
    /\ UNCHANGED <<gate, approved, consumed>>

\* The manifest gets its name, and then the receipt its digest.
CompleteGeneration(w) ==
    LET v == writer[w].manifest
    IN  /\ WriterAt(w, "drawn")
        /\ IF bundle.manifest = 0
           THEN bundle' = [bundle EXCEPT !.manifest = v] /\ UNCHANGED writer
           ELSE /\ bundle' = [bundle EXCEPT !.generation =
                                [status |-> "complete", manifest |-> bundle.manifest]]
                /\ writer' = [writer EXCEPT ![w] = Idle]
        /\ UNCHANGED <<gate, fresh, approved, consumed>>

\* The rows of the split are made in memory from a dataset that verifies.
StartSplit(w) ==
    /\ WriterAt(w, "idle")
    /\ VerifyDataset(bundle)
    /\ bundle.split.status = "none" /\ bundle.rows = NoRows
    /\ NewVersion
    /\ writer' = [writer EXCEPT ![w] =
                    [pc |-> "splitting", manifest |-> bundle.generation.manifest,
                     rows |-> [id |-> fresh', images |-> bundle.manifest]]]
    /\ UNCHANGED <<bundle, gate, approved, consumed>>

ClaimSplit(w) ==
    /\ WriterAt(w, "splitting")
    /\ IF bundle.split.status = "none"
       THEN /\ bundle' = [bundle EXCEPT !.split =
                            [status |-> "working", manifest |-> writer[w].manifest,
                             rows |-> writer[w].rows.id]]
            /\ WriterTo(w, "split")
       ELSE writer' = [writer EXCEPT ![w] = Idle] /\ UNCHANGED bundle
    /\ UNCHANGED <<gate, fresh, approved, consumed>>

\* A dataset that changed while it was split earns no complete receipt.
WriteSplit(w) ==
    /\ WriterAt(w, "split")
    /\ IF bundle.rows = NoRows
       THEN bundle' = [bundle EXCEPT !.rows = writer[w].rows] /\ UNCHANGED writer
       ELSE /\ IF VerifyDataset(bundle)
               THEN bundle' = [bundle EXCEPT !.split.status = "complete"]
               ELSE UNCHANGED bundle
            /\ writer' = [writer EXCEPT ![w] = Idle]
    /\ UNCHANGED <<gate, fresh, approved, consumed>>

KillWriter(w) ==
    /\ ~WriterAt(w, "idle")
    /\ writer' = [writer EXCEPT ![w] = Idle]
    /\ UNCHANGED <<bundle, gate, fresh, approved, consumed>>

-----------------------------------------------------------------------------
(* The review                                                              *)

\* mkdir is exclusive, packet.json is written last; all decisions start
\* pending.
Prepare ==
    /\ ReadSplit(bundle)
    /\ LET p == [manifest |-> bundle.generation.manifest, rows |-> bundle.split.rows]
       IN  bundle' = [bundle EXCEPT !.packet = [status |-> "working", value |-> p],
                                    !.review.packet = p]
    /\ bundle.packet.status = "none"
    /\ UNCHANGED <<writer, gate, fresh, approved, consumed>>

FinishPacket ==
    /\ bundle.packet.status = "working"
    /\ bundle' = [bundle EXCEPT !.packet.status = "complete"]
    /\ UNCHANGED <<writer, gate, fresh, approved, consumed>>

\* The reviewer looks at the files of the directory as they are now.
Decide(eligible) ==
    /\ bundle.packet.status = "complete"
    /\ bundle.review.eligible # eligible
    /\ NewVersion
    /\ bundle' = [bundle EXCEPT !.review.eligible = eligible, !.review.id = fresh']
    /\ approved' = IF eligible
                   THEN approved \cup {[rows |-> bundle.rows.id, artifacts |-> bundle.artifacts]}
                   ELSE approved
    /\ UNCHANGED <<writer, gate, consumed>>

-----------------------------------------------------------------------------
(* The call that trains                                                    *)

GateAt(pc) == gate.pc = pc
GateTo(pc) == gate' = [gate EXCEPT !.pc = pc]

\* Every check that fails raises, and the call is over.
CheckedStep(ok, next) == gate' = IF ok THEN next ELSE NoCallYet

\* require_source_review, asked by the preflight, by the call before it claims
\* its output, and by the training itself.
JudgeRows ==
    /\ gate.pc \in {"idle", "submitted", "claimed"} /\ gate.check = "none"
    /\ CheckedStep(ReadSplit(bundle), [gate EXCEPT !.check = "rows", !.judged = bundle.rows.id])
    /\ UNCHANGED <<bundle, writer, fresh, approved, consumed>>

ReadPacket ==
    /\ gate.check = "rows"
    /\ CheckedStep(PacketStands(bundle),
                   [gate EXCEPT !.check = "packet", !.packet = bundle.packet.value])
    /\ UNCHANGED <<bundle, writer, fresh, approved, consumed>>

ReadReview ==
    /\ gate.check = "packet"
    /\ CheckedStep(ReviewAccepts(bundle, gate.packet),
                   [gate EXCEPT !.check = "review", !.review = bundle.review.id])
    /\ UNCHANGED <<bundle, writer, fresh, approved, consumed>>

\* What the check returns.  Its digest of the rows is of the split as it is now,
\* and nothing compares that with the rows that were judged.
NewReceipt == [rows |-> bundle.rows.id, packet |-> gate.packet, review |-> gate.review]

\* A check that ends with receipt r moves the call on to pc.
Reviewed(pc, r, judged) ==
    [NoCallYet EXCEPT !.pc = pc, !.receipt = r, !.judged = judged]

\* The entry point asks for the receipts of the sources and submits the call.
Preflight ==
    /\ GateAt("idle") /\ gate.check = "review"
    /\ CheckedStep(CanBeNamed(bundle), Reviewed("submitted", NewReceipt, 0))
    /\ UNCHANGED <<bundle, writer, fresh, approved, consumed>>

CheckExpected ==
    /\ GateAt("submitted") /\ gate.check = "review"
    /\ CheckedStep(CanBeNamed(bundle) /\ NewReceipt = gate.receipt,
                   Reviewed("claimed", gate.receipt, 0))
    /\ UNCHANGED <<bundle, writer, fresh, approved, consumed>>

\* train() asks again, and keeps the new receipts.
CheckSources ==
    /\ GateAt("claimed") /\ gate.check = "review"
    /\ CheckedStep(CanBeNamed(bundle), Reviewed("checked", NewReceipt, gate.judged))
    /\ UNCHANGED <<bundle, writer, fresh, approved, consumed>>

LoadRecords ==
    /\ GateAt("checked")
    /\ CheckedStep(ReadSplit(bundle), [gate EXCEPT !.pc = "loaded", !.rows = bundle.rows])
    /\ UNCHANGED <<bundle, writer, fresh, approved, consumed>>

Recheck ==
    /\ GateAt("loaded")
    /\ CheckedStep(bundle.rows.id = gate.receipt.rows, [gate EXCEPT !.pc = "training"])
    /\ UNCHANGED <<bundle, writer, fresh, approved, consumed>>

\* Mutant: the image that is opened is not compared with the digest of its row.
ReadUnchecked ==
    /\ GateAt("training")
    /\ consumed' = consumed \cup {[judged |-> gate.receipt.rows = gate.judged,
                                   rows |-> gate.rows.id, artifacts |-> bundle.artifacts]}
    /\ UNCHANGED <<bundle, writer, gate, fresh, approved>>

\* A batch of images is opened: each must have the digest of its row.
ReadImages ==
    /\ GateAt("training")
    /\ IF bundle.artifacts = gate.rows.images
       THEN consumed' = consumed \cup {[judged |-> gate.receipt.rows = gate.judged,
                                        rows |-> gate.rows.id, artifacts |-> bundle.artifacts]}
       ELSE UNCHANGED consumed
    /\ CheckedStep(bundle.artifacts = gate.rows.images, gate)
    /\ UNCHANGED <<bundle, writer, fresh, approved>>

CallEnds ==
    /\ gate # NoCallYet
    /\ gate' = NoCallYet
    /\ UNCHANGED <<bundle, writer, fresh, approved, consumed>>

-----------------------------------------------------------------------------
(* What happens to the directory                                           *)

EditArtifacts ==
    /\ bundle.artifacts # 0 /\ NewVersion
    /\ bundle' = [bundle EXCEPT !.artifacts = fresh']
    /\ UNCHANGED <<writer, gate, approved, consumed>>

EditRows ==
    /\ bundle.rows # NoRows /\ NewVersion
    /\ bundle' = [bundle EXCEPT !.rows.id = fresh']
    /\ UNCHANGED <<writer, gate, approved, consumed>>

\* The directory is removed, to be generated again under the same name.
RemoveBundle ==
    /\ bundle # NoBundle
    /\ \A w \in Writers : WriterAt(w, "idle")
    /\ bundle' = NoBundle
    /\ UNCHANGED <<writer, gate, fresh, approved, consumed>>

SourceNext ==
    \/ \E w \in Writers :
          \/ StartGenerate(w) \/ ClaimGeneration(w) \/ WriteArtifacts(w) \/ CompleteGeneration(w)
          \/ StartSplit(w) \/ ClaimSplit(w) \/ WriteSplit(w) \/ KillWriter(w)
    \/ Prepare \/ FinishPacket \/ \E e \in BOOLEAN : Decide(e)
    \/ JudgeRows \/ ReadPacket \/ ReadReview
    \/ Preflight \/ CheckExpected \/ CheckSources \/ LoadRecords \/ Recheck
    \/ ReadImages \/ CallEnds
    \/ EditArtifacts \/ EditRows \/ RemoveBundle

SourceSpec == SourceInit /\ [][SourceNext]_sourceVars

-----------------------------------------------------------------------------
(* Properties                                                              *)

\* If the receipt a training keeps names the rows its check has judged, it reads
\* only rows and images that a reviewer has found eligible, together: edits and
\* datasets made again under the same name, before, within and after the check,
\* and a second writer never put anything else in front of it.  The condition is
\* what the code leaves open: a whole dataset put in place between the decisions
\* and the last read of the check (review.py:161 and 190) gets its own digest
\* onto the receipt of the old one, and the recheck compares it with itself.
ConsumedWasReviewed ==
    \A c \in consumed :
        c.judged => [rows |-> c.rows, artifacts |-> c.artifacts] \in approved
=============================================================================
