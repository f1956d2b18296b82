----------------------------- MODULE MetaTree -----------------------------
(***************************************************************************)
(* The name space of the meta server (meta/kfsops.cc): the operations of   *)
(* class Tree as functions of a tree, so that the request handlers and the *)
(* log replay, which call the same methods, share one definition.          *)
(*                                                                         *)
(* A tree is a record                                                      *)
(*   dent   <<directory, name>> -> file id      (MetaDentry)               *)
(*   attr   file id -> attributes               (MetaFattr, MetaChunkInfo) *)
(*   fseed, cseed   the last ids handed out     (fileID, chunkID)          *)
(*   roll   chunk id -> version increment       (mChunkVersionRollBack)    *)
(* "." and ".." are implied by dent; permissions, times, replication and   *)
(* storage tiers are left out.  A file's chunks map an offset to           *)
(* <<chunk id, version>>.  An unknown file size (any negative filesize of  *)
(* the code) is -1.  A name is a sequence of symbols.                      *)
(*                                                                         *)
(* Every operation returns its status, the tree after it and todumpster.   *)
(***************************************************************************)
EXTENDS Integers, Sequences, FiniteSets, FiniteSetsExt, Functions, TLC

ROOTFID == 2
DUMPSTERFID == 3
DUMPSTERDIR == <<"dumpster">>

\* Offsets and sizes are counted in half chunks.
CHUNKSIZE == 2

Unknown == -1
NoDump  == -1
Nothing == [x \in {} |-> 0]

NewFile == [type |-> "file", chunks |-> Nothing, size |-> 0, next |-> 0]
NewDir  == [NewFile EXCEPT !.type = "dir"]

Without(f, S) == Restrict(f, DOMAIN f \ S)

Ok(T)       == [st |-> "ok", t |-> T, dump |-> NoDump]
OkDump(T, f) == [st |-> "ok", t |-> T, dump |-> f]
Fail(T, e)  == [st |-> e, t |-> T, dump |-> NoDump]

Has(T, d, n) == <<d, n>> \in DOMAIN T.dent
Exists(T, f) == f \in DOMAIN T.attr
IsFile(T, f) == Exists(T, f) /\ T.attr[f].type = "file"
IsDir(T, f)  == Exists(T, f) /\ T.attr[f].type = "dir"
Files(T)     == {f \in DOMAIN T.attr : IsFile(T, f)}
ChunkIds(T, f) == {T.attr[f].chunks[o][1] : o \in DOMAIN T.attr[f].chunks}
AllChunkIds(T) == UNION {ChunkIds(T, f) : f \in Files(T)}
Parent(T, f) == CHOOSE d \in DOMAIN T.attr :
                    \E e \in DOMAIN T.dent : e[1] = d /\ T.dent[e] = f
emptydir(T, d) == \A e \in DOMAIN T.dent : e[1] # d
ChunkEnd(c) == IF DOMAIN c = {} THEN 0 ELSE Max(DOMAIN c) + CHUNKSIZE

\* Chunk ids of a set leave the chunk map: their roll back entries go too.
Forget(T, ids) == [T EXCEPT !.roll = Without(@, ids)]

(***************************************************************************)
(* moveToDumpster and rename.                                              *)
(***************************************************************************)
\* toString() of a file id: its decimal digits.
toString[n \in Nat] ==
    IF n < 10 THEN <<n>> ELSE Append(toString[n \div 10], n % 10)

MoveEntry(T, d, n, dd, dn) ==
    [T EXCEPT !.dent = (<<dd, dn>> :> T.dent[<<d, n>>])
                           @@ Without(@, {<<d, n>>})]

\* A busy file is renamed into the dumpster, under its name and id.
moveToDumpster(T, d, n, f) ==
    LET tempname == n \o toString[f]
    IN  IF d = DUMPSTERFID THEN Fail(T, "EEXIST")
        ELSE IF Has(T, DUMPSTERFID, tempname) THEN Fail(T, "EEXIST")
        ELSE OkDump(MoveEntry(T, d, n, DUMPSTERFID, tempname), f)

\* A plausible slip: the lease check of remove is left out.
RemoveIgnoresLeases(T, leased, d, n, todumpster) ==
    IF ~ Has(T, d, n) THEN Fail(T, "ENOENT")
    ELSE LET f == T.dent[<<d, n>>]
         IN  IF ~ IsFile(T, f) THEN Fail(T, "EISDIR")
             ELSE Ok(Forget([T EXCEPT !.dent = Without(@, {<<d, n>>}),
                                      !.attr = Without(@, {f})],
                            ChunkIds(T, f)))

\* remove: a file with a chunk under a valid lease, or one the log says was
\* moved, goes to the dumpster; any other is deleted with its chunks.
remove(T, leased, d, n, todumpster) ==
    IF ~ Has(T, d, n) THEN Fail(T, "ENOENT")
    ELSE LET f == T.dent[<<d, n>>]
         IN  IF ~ IsFile(T, f) THEN Fail(T, "EISDIR")
             ELSE IF /\ ChunkIds(T, f) # {}
                     /\ todumpster > 0 \/ ChunkIds(T, f) \cap leased # {}
             THEN moveToDumpster(T, d, n, f)
             ELSE Ok(Forget([T EXCEPT !.dent = Without(@, {<<d, n>>}),
                                      !.attr = Without(@, {f})],
                            ChunkIds(T, f)))

rmdir(T, d, n) ==
    IF ~ Has(T, d, n) THEN Fail(T, "ENOENT")
    ELSE LET f == T.dent[<<d, n>>]
         IN  IF f = DUMPSTERFID THEN Fail(T, "EPERM")
             ELSE IF ~ IsDir(T, f) THEN Fail(T, "ENOTDIR")
             ELSE IF ~ emptydir(T, f) THEN Fail(T, "ENOTEMPTY")
             ELSE Ok([T EXCEPT !.dent = Without(@, {<<d, n>>}),
                               !.attr = Without(@, {f})])

\* The directories passed on the way from dst to the root, dst included.
Ancestors(T, dst) ==
    LET up[i \in 0 .. Cardinality(DOMAIN T.attr)] ==
            IF i = 0 THEN dst
            ELSE IF up[i - 1] = ROOTFID THEN ROOTFID
            ELSE Parent(T, up[i - 1])
    IN  {up[i] : i \in 0 .. Cardinality(DOMAIN T.attr)}

is_descendant(T, src, dst) == src \in Ancestors(T, dst)

rename(T, leased, d, n, dd, dn, overwrite, todumpster) ==
    IF ~ Has(T, d, n) THEN Fail(T, "ENOENT")
    ELSE IF ~ IsDir(T, dd) THEN Fail(T, "ENOTDIR")
    ELSE IF <<d, n>> = <<dd, dn>> THEN Ok(T)
    ELSE LET f       == T.dent[<<d, n>>]
             dexists == Has(T, dd, dn)
             g       == T.dent[<<dd, dn>>]
             r       == IF ~ dexists THEN Ok(T)
                        ELSE IF IsDir(T, f) THEN rmdir(T, dd, dn)
                        ELSE remove(T, leased, dd, dn, todumpster)
         IN  IF dexists /\ ~ overwrite THEN Fail(T, "EEXIST")
             ELSE IF dexists /\ IsDir(T, f) # IsDir(T, g) THEN Fail(T, "EISDIR")
             ELSE IF dexists /\ IsDir(T, f) /\ ~ emptydir(T, g)
             THEN Fail(T, "ENOTEMPTY")
             ELSE IF IsDir(T, f) /\ is_descendant(T, f, dd)
             THEN Fail(T, "EINVAL")
             ELSE IF r.st # "ok" THEN r
             ELSE OkDump(MoveEntry(r.t, d, n, dd, dn), r.dump)

(***************************************************************************)
(* create and mkdir.  fid is 0 for a new id, the logged id in a replay.    *)
(* validStripes says whether SetStriped accepts the stripe parameters.     *)
(***************************************************************************)
Link(T, d, n, f, attr) ==
    [T EXCEPT !.dent = (<<d, n>> :> f) @@ @, !.attr = (f :> attr) @@ @]

create(T, leased, d, n, fid, exclusive, validStripes, todumpster) ==
    IF ~ Exists(T, d) THEN Fail(T, "ENOENT")
    ELSE IF ~ IsDir(T, d) THEN Fail(T, "ENOTDIR")
    ELSE IF Has(T, d, n) /\ ~ IsFile(T, T.dent[<<d, n>>]) THEN Fail(T, "EISDIR")
    ELSE IF Has(T, d, n) /\ exclusive THEN Fail(T, "EEXIST")
    ELSE LET r == IF Has(T, d, n) THEN remove(T, leased, d, n, todumpster)
                  ELSE Ok(T)
             f == IF fid = 0 THEN r.t.fseed + 1 ELSE fid
             U == IF fid = 0 THEN [r.t EXCEPT !.fseed = f] ELSE r.t
         IN  IF r.st # "ok" THEN r
             ELSE IF ~ validStripes THEN Fail(U, "EINVAL")
             ELSE OkDump(Link(U, d, n, f, NewFile), r.dump)

mkdir(T, d, n, fid) ==
    IF ~ IsDir(T, d) THEN Fail(T, "ENOTDIR")
    ELSE IF Has(T, d, n) THEN Fail(T, "EEXIST")
    ELSE LET f == IF fid = 0 THEN T.fseed + 1 ELSE fid
             U == IF fid = 0 THEN [T EXCEPT !.fseed = f] ELSE T
         IN  Ok(Link(U, d, n, f, NewDir))

(***************************************************************************)
(* Chunks: allocateChunkId looks a chunk up, assignChunkId attaches it.    *)
(***************************************************************************)
chunkStartOffset(o) == o - (o % CHUNKSIZE)

\* assignChunkId for a chunk the file already has: a new version.
AssignVersion(T, f, o, v, appendReplay) ==
    LET a == T.attr[f]
        end == Max({a.next, o + CHUNKSIZE})
    IN  [T EXCEPT !.attr[f].chunks[o] = <<@[1], v>>,
                  !.attr[f].size =
                      IF appendReplay THEN Max({@, end})
                      ELSE IF o + CHUNKSIZE >= a.next THEN Unknown ELSE @]

\* assignChunkId for a new chunk at offset o.
AssignNew(T, f, o, c, v, append) ==
    LET a    == T.attr[f]
        next == Max({a.next, o + CHUNKSIZE})
    IN  [T EXCEPT !.attr[f].chunks = (o :> <<c, v>>) @@ @,
                  !.attr[f].next = next,
                  !.attr[f].size =
                      IF append THEN Max({@, next})
                      ELSE IF o >= a.next THEN Unknown ELSE @,
                  !.roll = Without(@, {c})]

\* assignChunkId.  append: a record append of the running server, which moves
\* on to the end of the file when the offset is taken; appendReplay: the same
\* record read from the log, whose offset is final.  "panic" is a chunk id
\* that is already mapped.
assignChunkId(T, f, o, c, v, append, appendReplay) ==
    IF ~ Exists(T, f) THEN Fail(T, "ENOENT")
    ELSE LET taken == o \in DOMAIN T.attr[f].chunks
             off   == IF taken /\ append THEN T.attr[f].next ELSE o
         IN  IF taken /\ ~ append
             THEN IF \/ T.attr[f].chunks[o][1] # c
                     \/ T.attr[f].chunks[o][2] = v
                  THEN Fail(T, "EEXIST")
                  ELSE Ok(AssignVersion(T, f, o, v, appendReplay))
             ELSE IF c \in AllChunkIds(T) THEN Fail(T, "panic")
             ELSE Ok(AssignNew(T, f, off, c, v, append \/ appendReplay))


\* The chunks of src move past the last chunk of dst.
coalesceBlocks(T, src, dst) ==
    LET s == T.attr[src]
        start == T.attr[dst].next
        moved == [o \in {start + x : x \in DOMAIN s.chunks} |->
                      s.chunks[o - start]]
    IN  IF ~ (Exists(T, src) /\ Exists(T, dst)) THEN Fail(T, "ENOENT")
        ELSE IF src = dst THEN Fail(T, "EINVAL")
        ELSE IF ~ (IsFile(T, src) /\ IsFile(T, dst)) THEN Fail(T, "EISDIR")
        ELSE Ok([T EXCEPT
                   !.attr[dst].chunks = moved @@ @,
                   !.attr[dst].next = Max({@, ChunkEnd(moved)}),
                   !.attr[dst].size = IF DOMAIN moved = {} THEN @
                                      ELSE IF s.size < 0 THEN Unknown
                                      ELSE start + s.size,
                   !.attr[src] = NewFile])

\* truncate: endOffset < 0 cuts the file at offset, otherwise a hole is made
\* from offset to endOffset.  A cut inside a chunk is refused.
truncate(T, f, offset, endOffset) ==
    LET a   == T.attr[f]
        lco == chunkStartOffset(offset)
        gone == {o \in DOMAIN a.chunks :
                     lco <= o /\ (endOffset < 0 \/ o < endOffset)}
        first == {o \in DOMAIN a.chunks : lco <= o}
        U   == Forget([T EXCEPT !.attr[f].chunks = Without(@, gone)],
                      {a.chunks[o][1] : o \in gone})
    IN  IF endOffset >= 0 /\ (endOffset < offset \/ endOffset % CHUNKSIZE # 0)
        THEN Fail(T, "EINVAL")
        ELSE IF ~ IsFile(T, f) THEN Fail(T, "ENOENT")
        ELSE IF a.size = offset THEN Ok(T)
        ELSE IF first # {} /\ Min(first) < offset /\ offset < a.size
        THEN Fail(T, "EACCES")
        ELSE IF endOffset < 0
        THEN Ok([U EXCEPT !.attr[f].next = IF lco < offset THEN lco + CHUNKSIZE
                                           ELSE lco,
                          !.attr[f].size = offset])
        ELSE IF a.size < endOffset
        THEN Ok([U EXCEPT !.attr[f].next = endOffset,
                          !.attr[f].size = endOffset])
        ELSE Ok(U)

pruneFromHead(T, f, offset) == truncate(T, f, 0, chunkStartOffset(offset))

setFileSize(T, f, size) == [T EXCEPT !.attr[f].size = size]

\* Every file of the dumpster that has no valid lease is deleted.
cleanupDumpster(T, leased) ==
    LET entries == {e \in DOMAIN T.dent :
                        /\ e[1] = DUMPSTERFID
                        /\ ChunkIds(T, T.dent[e]) \cap leased = {}}
        files   == {T.dent[e] : e \in entries}
    IN  Forget([T EXCEPT !.dent = Without(@, entries),
                         !.attr = Without(@, files)],
               UNION {ChunkIds(T, f) : f \in files})
============================================================================
