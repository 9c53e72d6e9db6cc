------------------------------ MODULE BlobFormat ------------------------------
(***************************************************************************)
(* The bytes of the metapage: how the summary that LeafBuild stores is     *)
(* serialized, put on the page over what was there, and read back.  A byte *)
(* is a number below Radix and a string a sequence of bytes.  The other    *)
(* modules compare summaries where the code compares blobs, and count room *)
(* for bounds where it counts the bytes of the blob: this module is what   *)
(* says that they may.                                                     *)
(***************************************************************************)
EXTENDS LeafBuild, SequencesExt

CONSTANTS
    Radix,              \* values of a byte (256)
    PageSize,           \* bytes of the page after its header and the length
    max_blob_len,
    SUMMARY_VERSION,
    OtherVersion,       \* what other releases of the extension have left
    Bytes,              \* the bytes of a text
    Described           \* of each column: attnum, overlap, type_name, collation's OID

\* The summary of one column, with its texts spelt out.
ColumnOf(s, c) ==
    [attnum |-> Described[c].attnum, overlap |-> Described[c].overlap,
     type_name |-> Described[c].type_name, collation |-> Described[c].oid,
     min |-> IF s[c].min = None THEN None ELSE Bytes[s[c].min],
     max |-> IF s[c].max = None THEN None ELSE Bytes[s[c].max],
     has_nulls |-> s[c].has_nulls, all_nulls |-> s[c].all_nulls,
     unbounded |-> s[c].unbounded]

cols(s) == [c \in Column |-> ColumnOf(s, c)]

-----------------------------------------------------------------------------
u16(n) == <<n % Radix, (n \div Radix) % Radix>>

put_str(s) == u16(Len(s)) \o s

put_opt_str(s) == IF s = None THEN <<0>> ELSE <<1>> \o put_str(s)

Flag(set, flag) == IF set THEN flag ELSE 0

\* Mutant of Flags: unbounded shares its bit with all_nulls.
FlagsShared(c) == Flag(c.has_nulls, 1) + Flag(c.all_nulls \/ c.unbounded, 2)

Flags(c) == Flag(c.has_nulls, 1) + Flag(c.all_nulls, 2) + Flag(c.unbounded, 4)

\* The collation's OID takes four bytes in the code, and two here.
ColumnBytes(c) ==
    u16(c.attnum) \o <<Flag(c.overlap, 1), Flags(c)>> \o u16(c.collation)
        \o put_str(c.type_name) \o put_opt_str(c.min) \o put_opt_str(c.max)

\* The bytes of summary `s` as a release writes them that has `version`.
blob(s, version) ==
    <<version>> \o u16(Cardinality(Column))
        \o FlattenSeq([c \in Column |-> ColumnBytes(ColumnOf(s, c))])

serialize(s) == blob(s, SUMMARY_VERSION)

\* The bytes every blob has, whatever the bounds: what max_blob_len leaves is Room.
Fixed == Len(serialize([c \in Column |-> make_unbounded(BuiltFlags(c, {}))]))

Byte == 0 .. Radix - 1

Buffer == [len : Nat, bytes : Seq(Byte)]

ASSUME FormatAssumption ==
    /\ Radix \in Nat /\ Radix > 7
    /\ PageSize \in Nat /\ max_blob_len \in 1 .. PageSize /\ max_blob_len < Radix * Radix
    /\ SUMMARY_VERSION \in Byte
    /\ OtherVersion \subseteq Byte \ {SUMMARY_VERSION}
    /\ Column = 1 .. Cardinality(Column) /\ Cardinality(Column) < Radix * Radix
    /\ \A c \in Column :
           Described[c] \in [attnum : 0 .. Radix * Radix - 1, overlap : BOOLEAN,
                             type_name : Seq(Byte), oid : 0 .. Radix * Radix - 1]
    /\ Bytes \in [Text -> Seq(Byte)] /\ IsInjective(Bytes)
    /\ \A t \in Text : TextLen[t] = Len(Bytes[t])
    /\ Room = max_blob_len - Fixed
    /\ None \notin Seq(Byte) /\ None \notin Buffer

-----------------------------------------------------------------------------
(* Reader: what was read and the bytes left.  Past the end nothing is left *)
(* and every field takes a byte, so that whatever is read next fails too.  *)

Read(val, rest) == [ok |-> TRUE, val |-> val, rest |-> rest]

PastEnd == [ok |-> FALSE, val |-> 0, rest |-> <<>>]

u8_at(buf) == IF buf = <<>> THEN PastEnd ELSE Read(buf[1], Tail(buf))

u16_at(buf) ==
    IF Len(buf) < 2 THEN PastEnd
    ELSE Read(buf[1] + Radix * buf[2], SubSeq(buf, 3, Len(buf)))

str_at(buf) ==
    LET len == u16_at(buf)
    IN  IF ~len.ok \/ Len(len.rest) < len.val THEN PastEnd
        ELSE Read(SubSeq(len.rest, 1, len.val),
                  SubSeq(len.rest, len.val + 1, Len(len.rest)))

opt_str_at(buf) ==
    LET tag == u8_at(buf)
    IN  IF tag.ok /\ tag.val = 0 THEN Read(None, tag.rest) ELSE str_at(tag.rest)

ColumnAt(buf) ==
    LET attnum == u16_at(buf)
        overlap == u8_at(attnum.rest)
        flags == u8_at(overlap.rest)
        collation == u16_at(flags.rest)
        type_name == str_at(collation.rest)
        min == opt_str_at(type_name.rest)
        max == opt_str_at(min.rest)
        Bit(flag) == (flags.val \div flag) % 2 = 1
    IN  IF ~max.ok THEN PastEnd
        ELSE Read([attnum |-> attnum.val, overlap |-> overlap.val # 0,
                   has_nulls |-> Bit(1), all_nulls |-> Bit(2), unbounded |-> Bit(4),
                   collation |-> collation.val, type_name |-> type_name.val,
                   min |-> min.val, max |-> max.val],
                  max.rest)

\* The columns a blob holds after its version; what follows them is not read.
ColumnsAt(buf) ==
    LET ncols == u16_at(buf)
        after[i \in 0 .. ncols.val] ==
            IF i = 0 THEN ncols ELSE ColumnAt(after[i - 1].rest)
    IN  IF after[ncols.val].ok THEN [i \in 1 .. ncols.val |-> after[i].val] ELSE None

\* Mutant of deserialize: summaries of any version are read.
deserialize_any_version(buf) == ColumnsAt(Tail(buf))

deserialize(buf) == IF buf[1] # SUMMARY_VERSION THEN None ELSE ColumnsAt(Tail(buf))

-----------------------------------------------------------------------------
\* write_blob and replace_blob_if report an error.
TooLarge(data) == Len(data) > max_blob_len

page_blob(buffer) ==
    IF buffer.len = 0 \/ buffer.len > max_blob_len THEN None
    ELSE SubSeq(buffer.bytes, 1, buffer.len)

\* The bytes after the blob are those of the blobs before it.
put_blob(buffer, data) ==
    [len |-> Len(data), bytes |-> data \o SubSeq(buffer.bytes, Len(data) + 1, PageSize)]

PageInit == [len |-> 0, bytes |-> [i \in 1 .. PageSize |-> 0]]

\* am_build, on the file of a new index.
write_blob(data) == IF TooLarge(data) THEN None ELSE put_blob(PageInit, data)

\* am_insert: the page is left alone if its blob is not the one expected.
replace_blob_if(buffer, expected, data) ==
    IF TooLarge(data) THEN None
    ELSE IF page_blob(buffer) = expected THEN put_blob(buffer, data)
    ELSE buffer

-----------------------------------------------------------------------------
\* The summaries the page may hold next.
WidenedNext == {s \in {Widened(page, row) : row \in Input} : Fits(s)}

\* What is read from the page is what was stored last, for all the page still
\* holds of an earlier and longer blob; and a blob that another version of the
\* extension has left is unreadable ("they may not cover their data").
ReadsBack ==
    Written =>
        LET built == write_blob(serialize(page))
        IN  /\ built # None
            /\ deserialize(page_blob(built)) = cols(page)
            /\ \A s \in WidenedNext :
                   LET replaced == replace_blob_if(built, serialize(page), serialize(s))
                   IN  /\ replaced # None
                       /\ deserialize(page_blob(replaced)) = cols(s)
            /\ \A version \in OtherVersion :
                   deserialize(page_blob(write_blob(blob(page, version)))) = None

\* The compare-and-swap compares bytes: a session that read one summary and
\* finds the blob of another never takes it for the one it read.
BlobTellsSummary ==
    Written =>
        \A read \in WidenedNext \cup {page}, s \in WidenedNext :
            (read # page /\ s # page) =>
                LET built == write_blob(serialize(page))
                IN  replace_blob_if(built, serialize(read), serialize(s)) = built
=============================================================================
