-------------------------------- MODULE Adb --------------------------------
(***************************************************************************)
(* The binary database that holds version 3 packages and indexes (adb.c):  *)
(* its writer, which stores every distinct blob, number and object once    *)
(* and aligned, its reader, the sorting of arrays when they are committed, *)
(* the comparison and search of objects, and copying between databases.    *)
(*                                                                         *)
(* A database is a sequence of bytes.  A value is a type and either a      *)
(* small number or an offset.  To keep numbers small a byte is a decimal   *)
(* digit of an integer or any number of a blob, and the limits at which    *)
(* the encodings change are constants; a word has four bytes.              *)
(*                                                                         *)
(* What is written is a tree: a blob, an integer, or an object or array of *)
(* trees.  An array's schema may sort it, or sort it and drop repetitions, *)
(* before it is committed (pre).                                           *)
(***************************************************************************)
EXTENDS Version

CONSTANTS Blob8Max,    \* longest blob with a length of one byte
          Blob16Max,   \* longest blob with a length of two bytes
          IntMax       \* largest number kept in the value itself

Tree(k, s, n, c, pre) == [k |-> k, s |-> s, n |-> n, c |-> c, pre |-> pre]
TNull == Tree("null", <<>>, 0, <<>>, "none")
TBlob(s) == Tree("blob", s, 0, <<>>, "none")
TInt(n) == Tree("int", <<>>, n, <<>>, "none")
TObj(c) == Tree("obj", <<>>, 0, c, "none")
TArr(pre, c) == Tree("arr", <<>>, 0, c, pre)

Types == <<"NULL", "INT", "INT_32", "INT_64", "BLOB_8", "BLOB_16", "BLOB_32",
           "ARRAY", "OBJECT">>
Val(t, v) == [t |-> t, v |-> v]
NullVal == Val("NULL", 0)

\* The alignment a type is written with.
Align(t) == CASE t = "BLOB_8" -> 1 [] t = "BLOB_16" -> 2 [] OTHER -> 4

(***************************************************************************)
(* Bytes.                                                                  *)
(***************************************************************************)

Digits(n, w) == [i \in 1 .. w |-> (n \div 10^(i - 1)) % 10]
NumberOf(s) == FoldRight(LAMBDA d, n : n * 10 + d, s, 0)

\* A value as a word of an object, and back.
Word(v) == <<100 + SelectInSeq(Types, LAMBDA t : t = v.t)>> \o Digits(v.v, 3)
ValOf(w) == Val(Types[w[1] - 100], NumberOf(Tail(w)))
Words(vals) == Digits(Len(vals) + 1, 4) \o FlattenSeq([i \in 1 .. Len(vals) |-> Word(vals[i])])

\* Bytes offs + 1 .. offs + n of the database: adb_r_deref.
Deref(db, offs, n) == SubSeq(db.mem, offs + 1, offs + n)

(***************************************************************************)
(* Writing.  An operator of the writer gives the database it leaves and    *)
(* the offset or value it returns.                                         *)
(***************************************************************************)

\* adb_w_init: a header of two words, an empty table of what was written.
NewDb(dedup) == [mem |-> Digits(0, 8), cache |-> <<>>, dedup |-> dedup, realigned |-> FALSE]

\* adb_w_raw
WRaw(db, bytes, align) ==
    LET pad == (align - (Len(db.mem) % align)) % align
    IN [db |-> [db EXCEPT !.mem = @ \o Digits(0, pad) \o bytes],
        offs |-> Len(db.mem) + pad]

Known(db, bytes) ==
    SelectInSeq(db.cache, LAMBDA e : e.len = Len(bytes) /\ Deref(db, e.offs, e.len) = bytes)

\* Faulty: what is known is shared wherever it lies.
AlignedAnywhere(offs, align) == TRUE

Aligned(offs, align) == offs % align = 0

\* adb_w_data.  A known entry that is not aligned well enough is written
\* again, and the new place replaces the old one in the table.
WData(db, bytes, align) ==
    LET i == Known(db, bytes)
        w == WRaw(db, bytes, align)
        e == [len |-> Len(bytes), offs |-> w.offs]
    IN IF ~db.dedup THEN w
       ELSE IF i = 0 THEN [w EXCEPT !.db.cache = Append(@, e)]
       ELSE IF Aligned(db.cache[i].offs, align) THEN [db |-> db, offs |-> db.cache[i].offs]
       ELSE [w EXCEPT !.db.cache[i] = e, !.db.realigned = TRUE]

Stored(w, t) == [db |-> w.db, val |-> Val(t, w.offs)]

\* adb_w_blob_vec
WBlob(db, s) ==
    CASE Len(s) = 0 -> [db |-> db, val |-> NullVal]
      [] Len(s) \in 1 .. Blob8Max -> Stored(WData(db, <<Len(s)>> \o s, 1), "BLOB_8")
      [] Len(s) \in Blob8Max + 1 .. Blob16Max ->
             Stored(WData(db, Digits(Len(s), 2) \o s, 2), "BLOB_16")
      [] OTHER -> Stored(WData(db, Digits(Len(s), 4) \o s, 4), "BLOB_32")

\* adb_w_int
WInt(db, n) ==
    CASE n <= IntMax -> [db |-> db, val |-> Val("INT", n)]
      [] n \in IntMax + 1 .. 9999 -> Stored(WData(db, Digits(n, 4), 4), "INT_32")
      [] OTHER -> Stored(WData(db, Digits(n, 8), 4), "INT_64")

(***************************************************************************)
(* Reading.                                                                *)
(***************************************************************************)

\* adb_r_blob and adb_r_int
RBlob(db, v) ==
    LET w == CASE v.t = "BLOB_8" -> 1 [] v.t = "BLOB_16" -> 2 [] OTHER -> 4
        n == IF w = 1 THEN db.mem[v.v + 1] ELSE NumberOf(Deref(db, v.v, w))
    IN Deref(db, v.v + w, n)

RInt(db, v) ==
    CASE v.t = "INT" -> v.v
      [] v.t = "INT_32" -> NumberOf(Deref(db, v.v, 4))
      [] OTHER -> NumberOf(Deref(db, v.v, 8))

\* adb_r_obj: the values of an object or an array.
RVals(db, v) ==
    LET n == NumberOf(Deref(db, v.v, 4)) - 1
    IN [i \in 1 .. n |-> ValOf(Deref(db, v.v + 4 * i, 4))]

RECURSIVE Read(_, _)
\* The tree that a value stands for.
Read(db, v) ==
    CASE v.t = "NULL" -> TNull
      [] v.t \in {"INT", "INT_32", "INT_64"} -> TInt(RInt(db, v))
      [] v.t \in {"BLOB_8", "BLOB_16", "BLOB_32"} -> TBlob(RBlob(db, v))
      [] OTHER -> LET vs == RVals(db, v)
                      c == [i \in 1 .. Len(vs) |-> Read(db, vs[i])]
                  IN IF v.t = "ARRAY" THEN TArr("none", c) ELSE TObj(c)

(***************************************************************************)
(* Comparing and searching: adb_ro_cmpobj, adb_ro_cmp, adb_ra_find.        *)
(***************************************************************************)

Field(c, i) == IF i <= Len(c) THEN c[i] ELSE TNull

RECURSIVE CmpObj(_, _, _, _, _)
RECURSIVE CmpField(_, _, _, _)
\* From field i on; numCompare fields identify an object of this schema.
CmpObj(t, o, i, mode, numCompare) ==
    LET set == Field(t, i) # TNull
        r == IF mode = "EXACT" \/ set
             THEN CmpField(Field(t, i), Field(o, i), mode, numCompare) ELSE Equal
    IN IF i > Len(t) /\ i > Len(o) THEN Equal
       ELSE IF r # Equal THEN r
       ELSE IF mode = "INDEX" /\ ~set THEN Equal
       ELSE IF mode # "EXACT" /\ i >= numCompare THEN Equal
       ELSE CmpObj(t, o, i + 1, mode, numCompare)

CmpField(a, b, mode, numCompare) ==
    IF "blob" \in {a.k, b.k} THEN SortSeq1(a.s, b.s)
    ELSE IF "int" \in {a.k, b.k} THEN SortNat(a.n, b.n)
    ELSE CmpObj(a.c, b.c, 1, mode, numCompare)

RECURSIVE Bisect(_, _, _, _, _)
\* The binary search: the first item that tmpl is less than.
Bisect(arr, tmpl, l, r, numCompare) ==
    LET m == (l + r) \div 2
    IN IF l >= r THEN r
       ELSE IF CmpObj(tmpl.c, arr[m].c, 1, "INDEX", numCompare) = Less
       THEN Bisect(arr, tmpl, l, m, numCompare)
       ELSE Bisect(arr, tmpl, m + 1, r, numCompare)

\* adb_ra_find: the next match after cur, from the last item not above tmpl
\* when cur is 0; 0 when there is none.
RaFind(arr, cur, tmpl, numCompare) ==
    LET from == IF cur = 0 THEN Bisect(arr, tmpl, 1, Len(arr) + 1, numCompare) - 1
                ELSE cur + 1
        matches(i) == CmpObj(tmpl.c, arr[i].c, 1, "TEMPLATE", numCompare) = Equal
        near(i) == CmpObj(tmpl.c, arr[i].c, 1, "INDEX", numCompare) = Equal
        found == {i \in from .. Len(arr) :
                     i > 0 /\ matches(i) /\ \A j \in from .. i - 1 : j > 0 /\ near(j)}
    IN IF found = {} THEN 0 ELSE CHOOSE i \in found : \A j \in found : i <= j

(***************************************************************************)
(* Committing objects and arrays: __adb_w_obj, adb_wa_append, adb_wa_sort  *)
(* and adb_wa_sort_unique.                                                 *)
(***************************************************************************)

ExactLess(db, v, w) ==
    CmpField(Read(db, v), Read(db, w), "EXACT", 0) = Less

\* adb_wa_sort: SortVals is a stable sort by the content of the values.
SortVals(db, vals) == SortSeq(vals, LAMBDA v, w : ExactLess(db, v, w))

\* adb_wa_sort_unique drops a value that repeats the one before it.
DropRepeats(vals) ==
    FoldLeft(LAMBDA s, v : IF s # <<>> /\ Last(s) = v THEN s ELSE Append(s, v), <<>>, vals)

PreCommit(db, pre, vals) ==
    CASE pre = "none" -> vals
      [] pre = "sort" -> SortVals(db, vals)
      [] pre = "unique" -> DropRepeats(SortVals(db, vals))

\* Objects lose their trailing nulls; arrays never had any.
Trimmed(vals) ==
    LET used == {i \in 1 .. Len(vals) : vals[i] # NullVal}
    IN IF used = {} THEN <<>> ELSE SubSeq(vals, 1, CHOOSE i \in used : \A j \in used : j <= i)

WObj(db, t, pre, vals) ==
    LET v == Trimmed(PreCommit(db, pre, vals))
    IN IF v = <<>> THEN [db |-> db, val |-> NullVal]
       ELSE Stored(WData(db, Words(v), 4), t)

RECURSIVE Write(_, _)
\* A tree is written as the applets do: what it holds first, then itself.
Write(db, tree) ==
    IF tree.k = "null" THEN [db |-> db, val |-> NullVal]
    ELSE IF tree.k = "blob" THEN WBlob(db, tree.s)
    ELSE IF tree.k = "int" THEN WInt(db, tree.n)
    ELSE LET step(acc, t) ==
                 LET w == Write(acc.db, t)
                 IN [db |-> w.db,
                     vals |-> IF tree.k = "arr" /\ w.val = NullVal THEN acc.vals
                              ELSE Append(acc.vals, w.val)]
             kids == FoldLeft(step, [db |-> db, vals |-> <<>>], tree.c)
         IN WObj(kids.db, IF tree.k = "arr" THEN "ARRAY" ELSE "OBJECT", tree.pre, kids.vals)

(***************************************************************************)
(* adb_w_copy: a value of database src, with all it refers to, in db.      *)
(***************************************************************************)

CopySize(src, v) ==
    CASE v.t = "INT_32" -> 4 [] v.t = "INT_64" -> 8
      [] v.t = "BLOB_8" -> 1 + Len(RBlob(src, v))
      [] v.t = "BLOB_16" -> 2 + Len(RBlob(src, v))
      [] OTHER -> 4 + Len(RBlob(src, v))

RECURSIVE Copy(_, _, _)
Copy(db, src, v) ==
    IF v.t \in {"NULL", "INT"} THEN [db |-> db, val |-> v]
    ELSE IF v.t \in {"ARRAY", "OBJECT"}
    THEN LET step(acc, x) == LET w == Copy(acc.db, src, x)
                             IN [db |-> w.db, vals |-> Append(acc.vals, w.val)]
             kids == FoldLeft(step, [db |-> db, vals |-> <<>>], RVals(src, v))
         IN Stored(WData(kids.db, Words(kids.vals), 4), v.t)
    ELSE Stored(WData(db, Deref(src, v.v, CopySize(src, v)),
                      IF v.t = "INT_64" THEN 8 ELSE Align(v.t)), v.t)

(***************************************************************************)
(* Writers at work: trees written into one database, and copied from it    *)
(* into another, one after the other.                                      *)
(***************************************************************************)

CONSTANTS Trees, MaxWrites

VARIABLE store   \* the two databases and what was put into them

EmptyStore == [one |-> NewDb(TRUE), two |-> NewDb(TRUE), log |-> <<>>]

WriteTree(t) ==
    LET w == Write(store.one, t)
    IN store' = [store EXCEPT !.one = w.db,
                              !.log = Append(@, [to |-> "one", tree |-> t, val |-> w.val])]

CopyTree(i) ==
    LET w == Copy(store.two, store.one, store.log[i].val)
    IN /\ store.log[i].to = "one"
       /\ store' = [store EXCEPT !.two = w.db,
                                 !.log = Append(@, [to |-> "two", tree |-> store.log[i].tree,
                                                    val |-> w.val])]

AdbNext ==
    /\ Len(store.log) < MaxWrites
    /\ \/ \E t \in Trees : WriteTree(t)
       \/ \E i \in 1 .. Len(store.log) : CopyTree(i)

(***************************************************************************)
(* What the reader must find: the reference for the writer.                *)
(***************************************************************************)

TreeLess(a, b) == CmpField(a, b, "EXACT", 0) = Less

RECURSIVE Norm(_)
\* Empty blobs and empty objects are nothing; arrays are as their schema says.
Norm(t) ==
    LET c == [i \in 1 .. Len(t.c) |-> Norm(t.c[i])]
        items == SelectSeq(c, LAMBDA x : x # TNull)
        sorted == IF t.pre = "none" THEN items ELSE SortSeq(items, TreeLess)
        unique == IF t.pre = "unique" THEN DropRepeats(sorted) ELSE sorted
        used == {i \in 1 .. Len(c) : c[i] # TNull}
    IN CASE t.k = "blob" /\ t.s = <<>> -> TNull
         [] t.k = "obj" -> IF used = {} THEN TNull
                           ELSE TObj(SubSeq(c, 1, CHOOSE i \in used : \A j \in used : j <= i))
         [] t.k = "arr" -> IF items = <<>> THEN TNull ELSE TArr("none", unique)
         [] OTHER -> t

\* The offsets a value depends on.
RECURSIVE Reach(_, _)
Reach(db, v) ==
    IF v.t \in {"NULL", "INT"} THEN {}
    ELSE {v} \cup (IF v.t \in {"ARRAY", "OBJECT"}
                   THEN UNION {Reach(db, x) : x \in Range(RVals(db, v))} ELSE {})

\* Every value written or copied still reads as the tree it was made from,
\* whatever was written after it and however much of it is shared with other
\* values, and all it refers to is aligned for its type.  Arrays whose schema
\* asks for it are sorted and without repetitions, unless something was
\* written a second time for its alignment: then equal content has two
\* offsets, which adb_wa_sort_unique takes for two items.
AdbFaithful ==
    \A i \in 1 .. Len(store.log) :
        LET e == store.log[i]
            db == store[e.to]
            t == Read(db, e.val)
        IN /\ \A v \in Reach(db, e.val) : v.v % Align(v.t) = 0
           /\ \/ t = Norm(e.tree)
              \/ /\ db.realigned \/ store.one.realigned
                 /\ t.k = "arr" /\ Range(t.c) = Range(Norm(e.tree).c)
============================================================================
