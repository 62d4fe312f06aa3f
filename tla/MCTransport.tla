----------------------------- MODULE MCTransport -----------------------------
(***************************************************************************)
(* Packets of one chunk and of three, the last one shorter; time in units  *)
(* of the timeout.                                                         *)
(***************************************************************************)
EXTENDS Transport

MCLengths == {5, 7}

\* Whatever its length, the chunks of a packet are not too long, joined they
\* are the packet, and their indexes lead up to the last one
\* (PacketChunker.cs:27-53).
ASSUME ChunksJoin ==
    \A length \in 1..20 :
        LET chunks == SplitIntoChunks(1, length)
        IN  /\ FlattenSeq([i \in DOMAIN chunks |-> chunks[i].bytes]) = Bytes(length)
            /\ \A i \in DOMAIN chunks :
                  /\ chunks[i].index = i - 1
                  /\ chunks[i].isLast <=> i = Len(chunks)
                  /\ Len(chunks[i].bytes) \in
                        1..(IF chunks[i].group = 0 THEN MaxChunkSize ELSE MaxBodySize)
=============================================================================
