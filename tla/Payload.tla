------------------------------ MODULE Payload ------------------------------
(***************************************************************************)
(* The payload container from the builder to the target disk: packed from  *)
(* the graph of the installed disk through the extent cache, put on the    *)
(* installer medium, carried about, found, checked and written             *)
(* (yaoshi-payload build.rs, validate.rs, write.rs; yaoshi-build           *)
(* artifacts.rs and cache.rs for the composite file).                      *)
(*                                                                         *)
(* Sizes in the container are counted in blocks, its table in entries.  A  *)
(* digest is the thing digested.  Between two steps the medium may decay.  *)
(***************************************************************************)
EXTENDS DiskImages, FiniteSets, FiniteSetsExt

CONSTANTS
    EspFiles, RootFiles,  \* installed ESP and root images, as sequences of sectors
    Releases,             \* releases of the builder, whose zstd may differ
    Slack,                \* the 32 bytes that zstd has to save, in blocks
    Alignment,            \* PAYLOAD_CONTAINER_ALIGNMENT_BYTES
    OtherTables,          \* <<table, target>> of media this builder did not make
    TargetSectors,        \* size of the disk that is written
    Changes, Decays       \* bounds: changes before a build, decays of the medium

Old == [old |-> TRUE]      \* what was on the target

ASSUME Sizes == /\ {Slack, TargetSectors, Changes, Decays} \subseteq Nat
                /\ Alignment \in Nat \ {0}
ASSUME FilesHoldData ==
    \A file \in EspFiles \cup RootFiles : file \in Seq(ToSet(file) \ {Old}) \ {<<>>}
ASSUME TablesAreTables ==
    \A t \in OtherTables :
        /\ t[1] \in Seq(ToSet(t[1])) /\ t[2] \in Nat
        /\ \A e \in ToSet(t[1]) :
              {e.offset, e.len, e.encoded_len, e.blob_offset} \subseteq Nat

VARIABLES
    esp, root, release,  \* what the builder packs, and the builder
    cache,      \* extent cache: entries by place and bytes
    container,  \* the packed payload, or None
    medium,     \* the installer medium, or None
    plan,       \* extents of the write under way, as read when it began
    next,       \* the first one not written
    target,     \* the disk that is written
    stage,      \* where all this has got to
    changes, decays

inputs == <<esp, root, release, cache>>
vars == <<inputs, container, medium, plan, next, target, stage, changes, decays>>

Noise == [noise |-> TRUE]  \* what decay leaves
NoiseBlock == [s \in 1 .. BlockSectors |-> Noise]

-----------------------------------------------------------------------------
(* Encoding an extent.                                                     *)

(* zstd: a repetitive extent shrinks to its distinct blocks.               *)
Compressed(bytes, by) ==
    [i \in 1 .. Cardinality(ToSet(bytes)) |->
        [s \in 1 .. BlockSectors |-> [zstd |-> bytes, by |-> by, part |-> i]]]

(* What it may decode to: a decayed frame to an error or to other blocks.  *)
Decoded(encoded, len) ==
    IF encoded # <<>> /\ NoiseBlock \notin ToSet(encoded) THEN {encoded[1][1].zstd}
    ELSE {None, [i \in 1 .. len |-> NoiseBlock]}

encode_extent(bytes) ==
    CASE IsZero(bytes) -> [kind |-> "zero", encoded |-> <<>>]
      [] ~IsZero(bytes) /\ Len(Compressed(bytes, release)) + Slack < Len(bytes) ->
            [kind |-> "zstd", encoded |-> Compressed(bytes, release)]
      [] OTHER -> [kind |-> "raw", encoded |-> bytes]

CacheKey(extent) == [offset |-> extent.offset, bytes |-> extent.bytes]

(* An entry that is torn, or is not the encoding of the bytes, is a miss.  *)
read_extent_cache(extent) ==
    {e \in cache :
        /\ e.key = CacheKey(extent) /\ ~e.torn
        /\ \/ e.kind = "raw" /\ e.encoded = extent.bytes
           \/ /\ e.kind = "zstd" /\ Len(e.encoded) + Slack < Len(extent.bytes)
              /\ Decoded(e.encoded, Len(extent.bytes)) = {extent.bytes}}

encode_extent_cached(extent) ==
    IF extent.kind = "zero" THEN [kind |-> "zero", encoded |-> <<>>]
    ELSE IF read_extent_cache(extent) # {}
         THEN LET e == CHOOSE e \in read_extent_cache(extent) : TRUE
              IN  [kind |-> e.kind, encoded |-> e.encoded]
         ELSE encode_extent(extent.bytes)

write_extent_cache(extents) ==
    LET missed == {x \in ToSet(extents) : x.kind # "zero" /\ read_extent_cache(x) = {}}
        Entry(x) == [key |-> CacheKey(x), torn |-> FALSE,
                     kind |-> encode_extent(x.bytes).kind,
                     encoded |-> encode_extent(x.bytes).encoded]
    IN  {e \in cache : \A x \in missed : e.key # CacheKey(x)} \cup {Entry(x) : x \in missed}

-----------------------------------------------------------------------------
(* The container: a prelude over a manifest, a table and a blob area.      *)

NoBlob == 999  \* u64::MAX
Nonzero(e) == e.kind \in {"raw", "zstd"}
Total(sizes) ==
    LET sum[i \in DOMAIN sizes] == (IF i = 1 THEN 0 ELSE sum[i - 1]) + sizes[i]
    IN  IF sizes = <<>> THEN 0 ELSE sum[Len(sizes)]
Planned(table) == Total([i \in DOMAIN table |-> table[i].len])
PlannedZero(table) ==
    Total([i \in DOMAIN table |-> IF Nonzero(table[i]) THEN 0 ELSE table[i].len])
BlobEnd(table) ==
    Total([i \in DOMAIN table |-> IF Nonzero(table[i]) THEN table[i].encoded_len ELSE 0])
BlobCount(table) == Len(SelectSeq(table, Nonzero))
Before(table, i) == SubSeq(table, 1, i - 1)
saturating_sub(a, b) == IF a > b THEN a - b ELSE 0

HeaderUnits == 2 * Alignment  \* the prelude and the padded manifest
ContainerUnits(extents, blobLen) == RoundUp(HeaderUnits + extents + blobLen, Alignment)

(* What the semantic hash is taken of.                                     *)
Semantic(table) == [i \in DOMAIN table |-> <<table[i].offset, table[i].kind, table[i].sha>>]

write_payload_parts(table, blob, image, semantic) ==
    LET facts == [target |-> image, minimum |-> image,
                  extent_count |-> Len(table), blob_count |-> BlobCount(table),
                  planned |-> Planned(table), planned_zero |-> PlannedZero(table),
                  encoded |-> Len(blob), omitted |-> saturating_sub(image, Planned(table)),
                  semantic |-> semantic, table_sha |-> table, blob_sha |-> blob]
    IN  [prelude |-> Over([blob_len |-> Len(blob), manifest_sha |-> facts,
                           total |-> ContainerUnits(Len(table), Len(blob))], facts),
         manifest |-> facts, table |-> table, blob |-> blob]

Packed(extents) ==
    LET done == [i \in DOMAIN extents |-> encode_extent_cached(extents[i])]
        blob == FlattenSeq([i \in DOMAIN extents |-> done[i].encoded])
        table == [i \in DOMAIN extents |->
                    [offset |-> extents[i].offset, len |-> Len(extents[i].bytes),
                     kind |-> done[i].kind, encoded_len |-> Len(done[i].encoded),
                     blob_offset |->
                         IF done[i].kind = "zero" THEN NoBlob
                         ELSE Len(FlattenSeq([j \in 1 .. i - 1 |-> done[j].encoded])),
                     sha |-> extents[i].bytes, encoded_sha |-> done[i].encoded]]
    IN  write_payload_parts(table, blob, Blocks(InstalledGptLayout(Len(root))), Semantic(table))

parse_prelude(p, units) ==
    /\ p.blob_len = p.encoded
    /\ p.total = units /\ p.total = ContainerUnits(p.extent_count, p.blob_len)
    /\ p.target = p.minimum
    /\ p.omitted = saturating_sub(p.target, p.planned) /\ p.omitted = 0
    /\ p.planned_zero <= p.planned

validate_manifest(manifest, p) ==
    /\ manifest = p.manifest_sha
    /\ manifest # Noise
    /\ \A f \in DOMAIN manifest : manifest[f] = p[f]

(* What is checked of every entry that is taken without its blob.          *)
EntryIsSound(e, p) ==
    /\ 0 < e.len /\ e.len <= MaxExtent /\ e.offset + e.len <= p.target
    /\ CASE e.kind = "zero" -> e.encoded_len = 0 /\ e.blob_offset = NoBlob
         [] e.kind = "raw" -> e.encoded_len = e.len
         [] e.kind = "zstd" -> e.encoded_len < saturating_sub(e.len, Slack)
         [] OTHER -> FALSE

Ascends(table, i) == i = 1 \/ table[i - 1].offset + table[i - 1].len <= table[i].offset

BlobsDiffer(table) ==
    \A i, j \in DOMAIN table :
        i # j /\ Nonzero(table[i]) /\ Nonzero(table[j])
            => <<table[i].blob_offset, table[i].encoded_len>>
                  # <<table[j].blob_offset, table[j].encoded_len>>

(* Order is forgotten: an extent may start before the last one ends.       *)
validate_entries_metadata_AnyOrder(table, p) ==
    /\ \A i \in DOMAIN table :
          /\ EntryIsSound(table[i], p)
          /\ Nonzero(table[i]) => table[i].blob_offset = BlobEnd(Before(table, i))
    /\ BlobEnd(table) <= p.blob_len /\ BlobsDiffer(table)
    /\ Planned(table) = p.planned /\ PlannedZero(table) = p.planned_zero
    /\ BlobCount(table) = p.blob_count

validate_entries_metadata(table, p) ==
    /\ \A i \in DOMAIN table :
          /\ EntryIsSound(table[i], p)
          /\ Ascends(table, i)
          /\ Nonzero(table[i]) => table[i].blob_offset = BlobEnd(Before(table, i))
    /\ BlobEnd(table) <= p.blob_len /\ BlobsDiffer(table)
    /\ Planned(table) = p.planned /\ PlannedZero(table) = p.planned_zero
    /\ BlobCount(table) = p.blob_count

BlobOf(c, e) == SubSeq(c.blob, e.blob_offset + 1, e.blob_offset + e.encoded_len)

(* validate_payload_region_metadata: all but the blob area.                *)
AcceptsMetadata(c, units) ==
    /\ parse_prelude(c.prelude, units)
    /\ validate_manifest(c.manifest, c.prelude)
    /\ c.table = c.prelude.table_sha
    /\ validate_entries_metadata(c.table, c.prelude)

(* validate_payload: the blob area as well, and what it decodes to.        *)
Accepts(c, units) ==
    /\ AcceptsMetadata(c, units)
    /\ c.blob = c.prelude.blob_sha
    /\ \A i \in DOMAIN c.table :
          LET e == c.table[i]
          IN  /\ Nonzero(e) => BlobOf(c, e) = e.encoded_sha
              /\ e.sha \in CASE e.kind = "zero" -> {[b \in 1 .. e.len |-> ZeroBlock]}
                             [] e.kind = "raw" -> {BlobOf(c, e)}
                             [] e.kind = "zstd" -> Decoded(BlobOf(c, e), e.len)
    /\ Semantic(c.table) = c.prelude.semantic

-----------------------------------------------------------------------------
(* The installer medium.                                                   *)

pack_installer_boot_fat32 ==
    create_fat32_image("YAOSHI_BOOT",
        {"BOOTX64.EFI", "loader.conf", "yaoshi-installer.conf", "VMLINUZ", "KERNEL-RELEASE",
         "INSTALLER-BASE.CPIO.ZST", "INSTALLER-APP.CPIO.ZST"})

final_installer_composite_manifest(l, payload) ==
    LET Segment(offset, len, what) == [offset |-> offset, len |-> len, what |-> what]
    IN  << Segment(0, 1, installer_mbr_sector(l)),
           Segment(1, LeadingGap - 1, Zero),
           Segment(l.boot.start, l.boot.len, pack_installer_boot_fat32),
           Segment(l.payload.start, l.payload.len, payload),
           Segment(l.payload.start + l.payload.len, TrailingGap, Zero) >>

validate_composite_manifest_bytes(segments, size) ==
    /\ \A i \in DOMAIN segments :
          /\ segments[i].len > 0
          /\ segments[i].offset = IF i = 1 THEN 0 ELSE segments[i-1].offset + segments[i-1].len
    /\ Last(segments).offset + Last(segments).len = size

materialize_composite_file(segments, size) ==
    [sectors |-> size,
     mbr |-> segments[1].what,
     parts |-> {x \in ToSet(Tail(segments)) : x.what # Zero}]

PayloadAt(m, start) ==
    IF \E x \in m.parts : x.offset = start
    THEN (CHOOSE x \in m.parts : x.offset = start).what ELSE None

(* probe_source_disk and source_from_mbr.                                  *)
Probed(m) ==
    LET mbr == read_mbr_entries(m.mbr, m.sectors)
    IN  /\ mbr # None
        /\ mbr[1].type = "esp" /\ mbr[2].type = "linux"
        /\ mbr[1].start = LeadingGap /\ mbr[1].count = BootSectors
        /\ mbr[2].start = LeadingGap + BootSectors /\ mbr[2].count > 0
        /\ PayloadAt(m, mbr[2].start) # None
        /\ AcceptsMetadata(PayloadAt(m, mbr[2].start), mbr[2].count * Alignment)

(* What the full check of an installer image asks for.                     *)
check_installer_image(m, payload) ==
    LET l == InstallerMbrLayout(payload.prelude.total \div Alignment)
    IN  /\ m.sectors = l.image
        /\ read_mbr_entries(m.mbr, m.sectors) = installer_mbr_sector(l)
        /\ PayloadAt(m, l.payload.start) = payload
        /\ PayloadAt(m, l.boot.start) =
              [label |-> "YAOSHI_BOOT",
               files |-> {"BOOTX64.EFI", "loader.conf", "yaoshi-installer.conf", "VMLINUZ",
                          "KERNEL-RELEASE", "INSTALLER-BASE.CPIO.ZST",
                          "INSTALLER-APP.CPIO.ZST"}]
        /\ \A x \in m.parts : x.offset + x.len <= l.image - TrailingGap

Medium(payload) ==
    LET l == InstallerMbrLayout(payload.prelude.total \div Alignment)
    IN  materialize_composite_file(final_installer_composite_manifest(l, payload), l.image)

(* The payload with one thing of it changed.                               *)
DecayedPayload(c) ==
    LET counts == {"target", "planned", "omitted", "extent_count", "blob_len", "total"}
        places == {"offset", "len", "blob_offset", "encoded_len"}
    IN  {[c EXCEPT !.manifest = Noise]}
        \cup {[c EXCEPT !.prelude[f] = @ + 1] : f \in counts}
        \cup {[c EXCEPT !.blob[i] = NoiseBlock] : i \in DOMAIN c.blob}
        \cup UNION {{[c EXCEPT !.table[i][f] = @ + 1] : f \in places} : i \in DOMAIN c.table}

(* The medium with one thing of it changed or its end cut off.             *)
Decayed(m) ==
    LET part == CHOOSE x \in m.parts : x.offset = LeadingGap + BootSectors
    IN  {[m EXCEPT !.mbr = None], [m EXCEPT !.mbr[2].start = @ + 1],
         [m EXCEPT !.mbr[2].count = @ - 1], [m EXCEPT !.sectors = part.offset]}
        \cup {[m EXCEPT !.parts = (@ \ {part}) \cup {[part EXCEPT !.what = c]}] :
                  c \in DecayedPayload(part.what)}

-----------------------------------------------------------------------------

(* A medium this builder did not make, well formed but for its table.      *)
OtherMedium(t) ==
    Medium(write_payload_parts(t[1], [i \in 1 .. BlobEnd(t[1]) |-> NoiseBlock], t[2], None))

Init ==
    /\ \/ /\ esp \in EspFiles /\ root \in RootFiles /\ release \in Releases
          /\ medium = None /\ stage = "sources"
       \/ /\ esp = None /\ root = None /\ release = None
          /\ \E t \in OtherTables : medium = OtherMedium(t)
          /\ stage = "carried"
    /\ cache = {} /\ container = None /\ plan = None /\ next = 1
    /\ target = [s \in Covers(0, TargetSectors) |-> Old]
    /\ changes = Changes /\ decays = Decays

Layout == InstalledGptLayout(Len(root))
carried == <<plan, next, target, decays>>

(* Before the next build the sources change, the builder is another        *)
(* release, or a power cut has torn an entry of the cache.                 *)
Change ==
    /\ stage \in {"sources", "packed", "refused"} /\ changes > 0 /\ medium = None
    /\ changes' = changes - 1 /\ stage' = "sources" /\ container' = None
    /\ \/ root' \in RootFiles \ {root} /\ UNCHANGED <<esp, release, cache>>
       \/ esp' \in EspFiles \ {esp} /\ UNCHANGED <<root, release, cache>>
       \/ release' \in Releases \ {release} /\ UNCHANGED <<esp, root, cache>>
       \/ /\ \E e \in cache : cache' = (cache \ {e}) \cup {[e EXCEPT !.torn = TRUE]}
          /\ UNCHANGED <<esp, root, release>>
    /\ UNCHANGED <<medium, carried>>

(* pack_installed_system_payload_from_target_graph: plan, encode, write,   *)
(* validate what was written.                                              *)
Pack ==
    LET extents == for_each_extent(Layout, esp, root)
        packed == Packed(extents)
    IN  /\ stage = "sources" /\ GraphReads(Layout, esp, root)
        /\ cache' = write_extent_cache(extents)
        /\ IF Accepts(packed, packed.prelude.total)
           THEN container' = packed /\ stage' = "packed"
           ELSE container' = None /\ stage' = "refused"
        /\ UNCHANGED <<esp, root, release, medium, changes, carried>>

(* A file is not read, as always when the root image ends within a block.  *)
PackFails ==
    /\ stage = "sources"
    /\ stage' = "refused"
    /\ UNCHANGED <<inputs, container, medium, changes, carried>>

(* pack_final_installer_mbr_composite and publish, with its light check.   *)
Publish ==
    LET l == InstallerMbrLayout(container.prelude.total \div Alignment)
        segments == final_installer_composite_manifest(l, container)
    IN  /\ stage = "packed"
        /\ IF /\ MbrFits(l) /\ validate_composite_manifest_bytes(segments, l.image)
              /\ Probed(materialize_composite_file(segments, l.image))
           THEN medium' = materialize_composite_file(segments, l.image) /\ stage' = "carried"
           ELSE stage' = "refused" /\ UNCHANGED medium
        /\ UNCHANGED <<inputs, container, changes, carried>>

Decay ==
    /\ stage \in {"carried", "found", "writing"} /\ decays > 0 /\ container # None
    /\ decays' = decays - 1 /\ medium' \in Decayed(medium)
    /\ UNCHANGED <<inputs, container, plan, next, target, stage, changes>>

Find ==
    /\ stage = "carried"
    /\ stage' = IF Probed(medium) THEN "found" ELSE "none found"
    /\ UNCHANGED <<inputs, container, medium, changes, carried>>

Payload == PayloadAt(medium, LeadingGap + BootSectors)

(* The check at the start of a write; the region is the one that was found. *)
Begin ==
    /\ stage = "found"
    /\ IF /\ AcceptsMetadata(Payload, Payload.prelude.total)
          /\ Payload.prelude.minimum * BlockSectors <= TargetSectors
       THEN /\ stage' = IF Payload.table = <<>> THEN "written" ELSE "writing"
            /\ plan' = [table |-> Payload.table, blocks |-> Payload.prelude.target]
       ELSE stage' = "failed" /\ UNCHANGED plan
    /\ UNCHANGED <<inputs, container, medium, next, target, changes, decays>>

Bytes(e) == CASE e.kind = "zero" -> {[i \in 1 .. e.len |-> ZeroBlock]}
              [] e.kind = "raw" -> {BlobOf(Payload, e)}
              [] e.kind = "zstd" -> Decoded(BlobOf(Payload, e), e.len)

Put(e, bytes) == Over(At(e.offset * BlockSectors, FlattenSeq(bytes)), target)

Advance ==
    /\ next' = next + 1
    /\ stage' = IF next = Len(plan.table) THEN "written" ELSE "writing"
    /\ UNCHANGED <<inputs, container, medium, plan, changes, decays>>

(* A zero extent is taken to be zero already.                              *)
WriteExtent_SkipsZeros ==
    /\ stage = "writing"
    /\ LET e == plan.table[next]
       IN  \E bytes \in Bytes(e) \ {None} :
              target' = IF e.kind = "zero" THEN target ELSE Put(e, bytes)
    /\ Advance

(* An extent is decoded and written where it belongs.                      *)
WriteExtent ==
    /\ stage = "writing"
    /\ \E bytes \in Bytes(plan.table[next]) \ {None} : target' = Put(plan.table[next], bytes)
    /\ Advance

(* It does not decode, or the medium or the target gives an error.         *)
WriteFails ==
    /\ stage = "writing" /\ stage' = "failed"
    /\ UNCHANGED <<inputs, container, medium, changes, carried>>

Next == \/ Change \/ Pack \/ PackFails \/ Publish \/ Decay
        \/ Find \/ Begin \/ WriteExtent \/ WriteFails

Spec == Init /\ [][Next]_vars

-----------------------------------------------------------------------------
Image == write_installed_gpt_image(Layout, esp, root)

(* An extent is never longer than the 64 MiB a decoder is given room for,  *)
(* in the container as in the cache.                                       *)
TypeOK ==
    /\ stage \in {"sources", "packed", "refused", "carried", "found", "none found",
                  "writing", "written", "failed"}
    /\ \A e \in cache : e.kind \in {"raw", "zstd"} /\ Len(e.key.bytes) <= MaxExtent
    /\ container # None => \A e \in ToSet(container.table) : e.len \in 1 .. MaxExtent
    /\ next = 1 \/ next \in 2 .. Len(plan.table) + 1
    /\ changes \in 0 .. Changes /\ decays \in 0 .. Decays

(* The payload describes the image that the flat writer would have made,   *)
(* sector for sector, with a GPT that reads back as the layout; and the    *)
(* medium of it passes the full check although publishing skips that.      *)
TheGraphIsTheImage ==
    container # None =>
        /\ FlattenSeq([i \in DOMAIN container.table |-> FlattenSeq(container.table[i].sha)])
              = [s \in 1 .. Layout.image |-> Image[s - 1]]
        /\ parse_gpt_physical(Image) = [partitions |-> gpt_entries(Layout), span |-> Layout.image]
        /\ medium # None /\ decays = Decays => check_installer_image(medium, container)

(* A table that is accepted covers the target without gap or overlap, no   *)
(* two extents share blob bytes, and a write that succeeds touches all of  *)
(* the image's sectors and none behind them, whoever made the medium.      *)
AcceptedCoversTheTarget ==
    plan # None =>
        LET table == plan.table
            Span(e) == Covers(e.offset, e.len)
            Blob(e) == Covers(e.blob_offset, e.encoded_len)
            last == plan.blocks * BlockSectors - 1
        IN  /\ UNION {Span(e) : e \in ToSet(table)} = 0 .. plan.blocks - 1
            /\ \A i, j \in DOMAIN table :
                  i < j => /\ Span(table[i]) \cap Span(table[j]) = {}
                           /\ Nonzero(table[i]) /\ Nonzero(table[j])
                                 => Blob(table[i]) \cap Blob(table[j]) = {}
            /\ \A s \in DOMAIN target :
                  (s > last => target[s] = Old) /\ (s <= last /\ stage = "written" => target[s] # Old)

(* When a write reports success, every extent whose blob the medium still  *)
(* has is on the disk as the image has it, whatever else of the medium     *)
(* decayed and when; and if it has them all, the disk reads back as the    *)
(* installed layout however large it is.                                   *)
WrittenIsTheImage ==
    stage = "written" /\ container # None =>
        LET intact == {e \in ToSet(plan.table) :
                          Nonzero(e) => BlobOf(Payload, e) = e.encoded_sha}
        IN  /\ \A e \in intact :
                  \A s \in Covers(e.offset * BlockSectors, e.len * BlockSectors) :
                      target[s] = Image[s]
            /\ intact = ToSet(plan.table) =>
                  parse_gpt_physical(target)
                      = [partitions |-> gpt_entries(Layout), span |-> Layout.image]
=============================================================================
