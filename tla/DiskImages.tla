----------------------------- MODULE DiskImages -----------------------------
(***************************************************************************)
(* What the images are made of: the partition layouts (yaoshi-common       *)
(* layout.rs), the GPT that is written and the GPT that is read, the        *)
(* installed disk as a file and as a graph of blocks, the MBR of the       *)
(* installer medium (yaoshi-image).                                        *)
(*                                                                         *)
(* A disk is a function from sectors to contents; a structure is a record  *)
(* in the sector it starts in.  A checksum is the thing it is taken of.    *)
(* The GUIDs and names are fixed by the code and left out.                 *)
(***************************************************************************)
EXTENDS Naturals, SequencesExt

CONSTANTS
    None,          \* nothing
    LeadingGap,    \* LEADING_GAP_BYTES, in sectors as all sizes here
    EspSectors,    \* INSTALLED_ESP_SIZE_BYTES
    TrailingGap,   \* TRAILING_GAP_BYTES
    EntrySectors,  \* the 32 sectors of a GPT entry array
    BlockSectors,  \* REQUIRED_BLOCK_SIZE
    MaxExtent,     \* PAYLOAD_EXTENT_MAX_UNCOMPRESSED_BYTES, in blocks
    BootSectors,   \* INSTALLER_BOOT_SIZE_BYTES
    MaxField       \* the largest number an MBR field holds

ASSUME GapsHoldTheTables ==
    /\ {LeadingGap, TrailingGap, MaxField} \subseteq Nat
    /\ {EspSectors, EntrySectors, BlockSectors, MaxExtent, BootSectors} \subseteq Nat \ {0}
    /\ \A size \in {LeadingGap, EspSectors, TrailingGap} : size % BlockSectors = 0
    /\ LeadingGap >= EntrySectors + 2 + BlockSectors
    /\ TrailingGap >= EntrySectors + 1 + BlockSectors

RoundDown(v, m) == (v \div m) * m
RoundUp(v, m) == RoundDown(v + m - 1, m)
Covers(start, len) == start .. start + len - 1
At(start, bytes) == [s \in Covers(start, Len(bytes)) |-> bytes[s - start + 1]]
Over(new, old) ==  \* what is written later covers what is there
    [x \in DOMAIN new \cup DOMAIN old |-> IF x \in DOMAIN new THEN new[x] ELSE old[x]]
Zero == [zero |-> TRUE]
Zeros(n) == [i \in 1 .. n |-> Zero]

-----------------------------------------------------------------------------
(* The installed disk.                                                     *)

InstalledGptLayout(rootSectors) ==
    [esp |-> [start |-> LeadingGap, len |-> EspSectors],
     root |-> [start |-> LeadingGap + EspSectors, len |-> rootSectors],
     image |-> LeadingGap + EspSectors + rootSectors + TrailingGap]

gpt_entries(l) ==
    << [start |-> l.esp.start, end |-> l.esp.start + l.esp.len - 1],
       [start |-> l.root.start, end |-> l.root.start + l.root.len - 1] >>

encode_gpt_entries(l) == <<[entries |-> gpt_entries(l)]>> \o Zeros(EntrySectors - 1)

LastLba(l) == l.image - 1
encode_gpt_header(l, current, alternate, entriesLba) ==
    [current |-> current, alternate |-> alternate,
     first |-> EntrySectors + 2, last |-> LastLba(l) - (EntrySectors + 1),
     entries |-> entriesLba, crc |-> encode_gpt_entries(l)]

PrimaryHeader(l) == encode_gpt_header(l, 1, LastLba(l), 2)
BackupEntriesLba(l) == LastLba(l) - EntrySectors
BackupHeader(l) == encode_gpt_header(l, LastLba(l), 1, BackupEntriesLba(l))
ProtectiveMbr(l) == [pmbr |-> LastLba(l)]

(* The whole image in one file, from the first write to the last.          *)
write_installed_gpt_image(l, esp, root) ==
    LET empty == At(0, Zeros(l.image))
        mbr == Over(At(0, <<ProtectiveMbr(l)>>), empty)
        primary == Over(At(2, encode_gpt_entries(l)), Over(At(1, <<PrimaryHeader(l)>>), mbr))
        backup == Over(At(LastLba(l), <<BackupHeader(l)>>),
                       Over(At(BackupEntriesLba(l), encode_gpt_entries(l)), primary))
    IN  Over(At(l.root.start, root), Over(At(l.esp.start, esp), backup))

-----------------------------------------------------------------------------
(* The same disk as a graph: two runs of GPT bytes, the two files, zeros.  *)

Extent(start, bytes) == [start |-> start, bytes |-> bytes]

(* The backup run starts at its entries, not at the block they are in.     *)
gpt_required_extent_bytes_Unrounded(l) ==
    << Extent(0, <<ProtectiveMbr(l), PrimaryHeader(l)>> \o encode_gpt_entries(l)),
       Extent(RoundDown(BackupEntriesLba(l), BlockSectors),
              encode_gpt_entries(l) \o <<BackupHeader(l)>>) >>

gpt_required_extent_bytes(l) ==
    LET used == <<ProtectiveMbr(l), PrimaryHeader(l)>> \o encode_gpt_entries(l)
        backup == RoundDown(BackupEntriesLba(l), BlockSectors)
    IN  << Extent(0, used \o Zeros(RoundUp(Len(used), BlockSectors) - Len(used))),
           Extent(backup, Zeros(BackupEntriesLba(l) - backup)
                              \o encode_gpt_entries(l) \o <<BackupHeader(l)>>) >>

Overlaps(a, lenA, b, lenB) == a < b + lenB /\ b < a + lenA

(* A file is read to the end of the block, whether it reaches there or not. *)
ReadFails(block, part, file) ==
    LET start == block * BlockSectors
    IN  /\ Overlaps(start, BlockSectors, part.start, part.len)
        /\ start + BlockSectors > part.start + Len(file)

Blocks(l) == RoundUp(l.image, BlockSectors) \div BlockSectors
GraphReads(l, esp, root) ==
    /\ Len(esp) = l.esp.len /\ Len(root) = l.root.len
    /\ \A b \in 0 .. Blocks(l) - 1 : ~ReadFails(b, l.esp, esp) /\ ~ReadFails(b, l.root, root)

block_bytes_at(l, esp, root) ==
    LET gpt == gpt_required_extent_bytes(l)
        tables == Over(At(gpt[2].start, gpt[2].bytes),
                       Over(At(gpt[1].start, gpt[1].bytes), At(0, Zeros(l.image))))
        sectors == Over(At(l.root.start, root), Over(At(l.esp.start, esp), tables))
    IN  [b \in 1 .. Blocks(l) |->
            [i \in 1 .. BlockSectors |-> sectors[(b - 1) * BlockSectors + i - 1]]]

ZeroBlock == Zeros(BlockSectors)
IsZero(bytes) == \A i \in DOMAIN bytes : bytes[i] = ZeroBlock

(* An extent grows without end.                                            *)
AddBlock_Unbounded(extents, block) ==
    LET prior == Last(extents)
        kind == IF block = ZeroBlock THEN "zero" ELSE "data"
    IN  IF extents # <<>> /\ prior.kind = kind
        THEN Front(extents) \o <<[prior EXCEPT !.bytes = Append(@, block)]>>
        ELSE Append(extents,
                    [offset |-> IF extents = <<>> THEN 0 ELSE prior.offset + Len(prior.bytes),
                     bytes |-> <<block>>, kind |-> kind])

(* An extent takes in the next block while it is of its kind and has room. *)
AddBlock(extents, block) ==
    LET prior == Last(extents)
        grows == /\ extents # <<>>
                 /\ prior.kind = (IF block = ZeroBlock THEN "zero" ELSE "data")
                 /\ Len(prior.bytes) + 1 <= MaxExtent
    IN  IF grows
        THEN Front(extents) \o <<[prior EXCEPT !.bytes = Append(@, block)]>>
        ELSE Append(extents,
                    [offset |-> IF extents = <<>> THEN 0 ELSE prior.offset + Len(prior.bytes),
                     bytes |-> <<block>>,
                     kind |-> IF block = ZeroBlock THEN "zero" ELSE "data"])

for_each_extent(l, esp, root) ==
    LET blocks == block_bytes_at(l, esp, root)
        after[b \in 1 .. Blocks(l)] ==
            AddBlock(IF b = 1 THEN <<>> ELSE after[b - 1], blocks[b])
    IN  after[Blocks(l)]

-----------------------------------------------------------------------------
(* Reading a GPT back from a disk that may be larger than the image.       *)

Header(disk, s) == s \in DOMAIN disk /\ "alternate" \in DOMAIN disk[s]
Entries(disk, s) == [i \in 1 .. EntrySectors |-> disk[s + i - 1]]

parse_gpt_physical(disk) ==
    LET p == disk[1]
        b == disk[p.alternate]
        array == Entries(disk, p.entries)
        good == /\ Header(disk, 1) /\ p.current = 1
                /\ p.alternate \in DOMAIN disk /\ Header(disk, p.alternate)
                /\ b.current = p.alternate /\ b.alternate = 1
                /\ p.first <= p.last /\ b.first = p.first /\ b.last = p.last
                /\ p.entries = 2 /\ 2 + EntrySectors <= p.alternate + 1
                /\ array = p.crc
                /\ b.entries + EntrySectors = p.alternate
                /\ Entries(disk, b.entries) = b.crc /\ b.crc = array
                /\ \A i \in DOMAIN array[1].entries :
                      LET e == array[1].entries[i]
                      IN  p.first <= e.start /\ e.start <= e.end /\ e.end <= p.last
                          /\ e.end <= p.alternate
    IN  IF good THEN [partitions |-> array[1].entries, span |-> p.alternate + 1] ELSE None

-----------------------------------------------------------------------------
(* The installer medium: an MBR, the boot file system, the payload, gaps.  *)

InstallerMbrLayout(payloadSectors) ==
    [boot |-> [start |-> LeadingGap, len |-> BootSectors],
     payload |-> [start |-> LeadingGap + BootSectors, len |-> payloadSectors],
     image |-> LeadingGap + BootSectors + payloadSectors + TrailingGap]

MbrFits(l) == l.payload.len <= MaxField /\ l.payload.start <= MaxField

installer_mbr_sector(l) ==
    << [type |-> "esp", start |-> l.boot.start, count |-> l.boot.len],
       [type |-> "linux", start |-> l.payload.start, count |-> l.payload.len] >>

(* Both partitions are there and within the medium.                        *)
read_mbr_entries(mbr, mediumSectors) ==
    IF /\ mbr # None
       /\ \A i \in 1 .. 2 : mbr[i].start + mbr[i].count <= mediumSectors
    THEN mbr ELSE None

create_fat32_image(label, files) == [label |-> label, files |-> files]
=============================================================================
