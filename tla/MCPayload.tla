------------------------------ MODULE MCPayload ------------------------------
(* Root images with holes, repetitions and an unaligned end; every table of *)
(* up to three extents over three blocks.                                   *)
EXTENDS Payload

D(i) == [data |-> i]
Fill(i) == <<D(i), D(i)>>

MCEspFiles == {<<D(1), D(2), D(1), D(1)>>, <<D(1), Zero, Zero, Zero>>}
MCRootFiles == {Fill(3) \o Zeros(2) \o Fill(4),
                Fill(3) \o Fill(3) \o Fill(3) \o Fill(3) \o Fill(3),
                Zeros(6) \o Fill(5) \o Zeros(2),
                Fill(3) \o <<D(4)>>,
                Fill(3) \o Fill(4) \o Fill(5) \o Fill(6) \o Fill(3) \o Fill(6)}

OtherExtents ==
    [offset : 0 .. 2, len : 1 .. 2, kind : {"zero"}, encoded_len : {0}, blob_offset : {NoBlob}]
    \cup {e \in [offset : 0 .. 2, len : 1 .. 2, kind : {"raw"}, encoded_len : 1 .. 2,
                 blob_offset : 0 .. 2] : e.encoded_len = e.len}
MCOtherTables ==
    UNION {{<<t, 3>> : t \in [1 .. n -> OtherExtents]} : n \in 1 .. 3}
    \cup {<<t, 2>> : t \in [1 .. 2 -> OtherExtents]} \cup {<< <<>>, 0 >>}
=============================================================================
