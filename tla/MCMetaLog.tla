----------------------------- MODULE MCMetaLog -----------------------------
(***************************************************************************)
(* Instances of MetaLog for TLC.                                           *)
(***************************************************************************)
EXTENDS MetaLog

\* A directory /a with one file /a/b of one chunk, and an empty file /b.
MCTree ==
    [dent  |-> (<<ROOTFID, DUMPSTERDIR>> :> DUMPSTERFID)
                 @@ (<<ROOTFID, <<"a">>>> :> 4)
                 @@ (<<4, <<"b">>>> :> 5)
                 @@ (<<ROOTFID, <<"b">>>> :> 6),
     attr  |-> (ROOTFID :> NewDir) @@ (DUMPSTERFID :> NewDir)
                 @@ (4 :> NewDir)
                 @@ (5 :> [NewFile EXCEPT !.chunks = (0 :> <<3, 1>>),
                                          !.size = 2, !.next = 2])
                 @@ (6 :> NewFile),
     fseed |-> 6, cseed |-> 3, roll |-> Nothing]

\* No end offset, one chunk, and one that is not aligned.
MCTruncateEnd == {-1, 2, 3}

MCNames == {<<"a">>, <<"b">>}
============================================================================
