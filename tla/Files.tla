-------------------------------- MODULE Files --------------------------------
(***************************************************************************)
(* The parsers of mods/nbtschematic.go: MCEdit (.schematic, .nbt), Sponge  *)
(* (.schem) and Litematica (.litematic) files turned into the list of      *)
(* blocks the schematic builder works on.  A step is one turn of a loop.   *)
(*                                                                         *)
(* A file is what its NBT decodes to: regions with a size, entries and a   *)
(* palette.  The first two formats have one region.  Litematica packs its  *)
(* entries into signed words of W bits, 64 in the code.                    *)
(***************************************************************************)
EXTENDS Integers, Sequences, FiniteSets

CONSTANTS
  Schematics, (* the files                                                 *)
  W,          (* bits of a word                                            *)
  Names,      (* block names, with and without prefix and properties       *)
  Clean,      (* Clean[n]: n without both                                  *)
  HasAir,     (* the names with "air" in them, "stairs" too                *)
  Blank,      (* the empty name and "air"                                  *)
  Legacy,     (* Legacy[id]: the ids the switch of legacyIDToName lists    *)
  Stone       (* what it answers for any other id                          *)

\* A word of a packed array: a Go int64.
Word == -(2^(W - 1))..(2^(W - 1) - 1)
Exts == {".schematic", ".nbt", ".schem", ".litematic"}
\* What toInt makes of a size that is missing or no integer is 0.
IsRegion(r) ==
  /\ r \in [ok : BOOLEAN, w : Int, h : Int, l : Int, data : Seq(Int),
            palette : [DOMAIN r.palette -> Names]]
  /\ IsFiniteSet(DOMAIN r.palette)

ASSUME FilesAssumption ==
  /\ W \in Nat \ {0}
  /\ Clean \in [Names -> Names]
  /\ Stone \in Names \ Blank
  /\ \A id \in DOMAIN Legacy : Legacy[id] \in Names /\ (id # 0 => Legacy[id] \notin Blank)
  /\ \A f \in Schematics :
       /\ \A r \in f.regions : IsRegion(r)
       /\ f.ext # ".litematic" =>
            \A r \in f.regions : r.w \in Nat /\ r.h \in Nat /\ r.l \in Nat
       /\ f.ext = ".litematic" => \A r \in f.regions : r.data \in Seq(Word)

VARIABLES
  file,
  todo,       (* the regions to come, in the order of a Go map: any        *)
  reg,        (* the region being read                                     *)
  i,          (* its next entry                                            *)
  blocks,     (* sc.Blocks                                                 *)
  start,      (* how many of them earlier regions gave                     *)
  pc

vars == <<file, todo, reg, i, blocks, start, pc>>
NoRegion == [ok |-> FALSE, w |-> 0, h |-> 0, l |-> 0, data |-> << >>, palette |-> << >>]

Init ==
  /\ file \in Schematics /\ todo = file.regions
  /\ reg = NoRegion /\ i = 0 /\ start = 0
  /\ blocks = << >>
  /\ pc = "open"

Lite == file.ext = ".litematic"

\* Litematica has signed sizes and takes their absolute value.
Abs(n) == IF n < 0 THEN -n ELSE n
Width == Abs(reg.w)
Height == Abs(reg.h)
Length == Abs(reg.l)
Total == Width * Height * Length

-----------------------------------------------------------------------------
\* The state of entry n of a Litematica region: >> keeps the sign, & with a
\* mask of k ones takes the low k bits, and so does nothing from W bits on.
Bits == LET size == Cardinality(DOMAIN reg.palette) IN IF size > 4 THEN size ELSE 4
LongIdx(n) == (n * Bits) \div W
BitIdx(n) == (n * Bits) % W
Signed(v) == ((v + 2^(W - 1)) % 2^W) - 2^(W - 1)
Low(v, k) == IF k < W THEN v % 2^k ELSE v
Shifted(n) == reg.data[LongIdx(n) + 1] \div 2^BitIdx(n)

\* Mutants: the mask of the first branch left out; the rest of a straddling
\* entry not moved into its place.
Straddles(n) == BitIdx(n) + Bits > W
RestUnmoved(n) ==
  IF LongIdx(n) + 1 < Len(reg.data)
  THEN Low(reg.data[LongIdx(n) + 2], Bits - (W - BitIdx(n))) ELSE 0
Rest(n) ==
  LET have == W - BitIdx(n)
  IN IF LongIdx(n) + 1 < Len(reg.data)
     THEN Signed(Low(reg.data[LongIdx(n) + 2], Bits - have) * 2^have)
     ELSE 0
Unmasked(n) == Shifted(n)
Masked(n) == Low(Shifted(n), Bits)
StateID(n) ==
  IF ~Straddles(n) THEN Masked(n)
  ELSE IF Shifted(n) < 0 THEN Shifted(n)    \* ones wherever the rest goes
  ELSE Shifted(n) + Rest(n)

ID(n) == IF Lite THEN StateID(n) ELSE reg.data[n + 1]

-----------------------------------------------------------------------------
\* The block an entry names, and whether the entry is passed over: air, or an id
\* the palette lacks.  A negative id of a Litematica entry gets no further.
Classic == file.ext \in {".schematic", ".nbt"}
legacyIDToName(id) == IF id \in DOMAIN Legacy THEN Legacy[id] ELSE Stone
NameOf(id) == IF Classic THEN legacyIDToName(id) ELSE Clean[reg.palette[id]]
Passed(id) ==
  \/ Classic /\ id = 0
  \/ ~Classic /\ id \notin DOMAIN reg.palette
  \/ ~Classic /\ IF Lite THEN NameOf(id) \in Blank ELSE reg.palette[id] \in HasAir

\* Where entry n goes.  The mutant divides by the length.
LayerAt(n) == n % (Width * Length)
PlacedByLength(n) == [x |-> LayerAt(n) % Length, y |-> n \div (Width * Length),
                      z |-> LayerAt(n) \div Length]
Placed(n) == [x |-> LayerAt(n) % Width, y |-> n \div (Width * Length),
              z |-> LayerAt(n) \div Width]
Outside(p) == ~Lite /\ (p.y >= Height \/ p.z >= Length \/ p.x >= Width)
Taken(n) == ~Passed(ID(n)) /\ ~Outside(Placed(n))

-----------------------------------------------------------------------------
\* parseNBTSchematic up to the loops.  A field that is missing is an error in
\* the first two formats, and in a Litematica region passes over the region.
Open ==
  /\ pc = "open"
  /\ pc' = IF file.ext \in Exts /\ (Lite \/ \A r \in todo : r.ok)
           THEN "region" ELSE "error"
  /\ UNCHANGED <<file, todo, reg, i, blocks, start>>

\* The mutant has one Schematic for each region.
Afresh == << >>
Carried == blocks

Begin(r) ==
  /\ pc = "region" /\ r \in todo /\ r.ok
  /\ todo' = todo \ {r} /\ reg' = r
  /\ i' = 0 /\ blocks' = Carried /\ start' = Len(blocks)
  /\ pc' = "loop"
  /\ UNCHANGED file

PassOver(r) ==
  /\ pc = "region" /\ r \in todo /\ ~r.ok
  /\ todo' = todo \ {r}
  /\ UNCHANGED <<file, reg, i, blocks, start, pc>>

Return ==
  /\ pc = "region" /\ todo = {}
  /\ pc' = "done"
  /\ UNCHANGED <<file, todo, reg, i, blocks, start>>

\* One turn of the loop over the entries.
More == IF Lite THEN i < Total /\ LongIdx(i) < Len(reg.data) ELSE i < Len(reg.data)
Turn == pc = "loop" /\ More /\ UNCHANGED <<file, todo, reg, start>>

End ==
  /\ pc = "loop" /\ ~More
  /\ pc' = "region"
  /\ UNCHANGED <<file, todo, reg, i, blocks, start>>

\* palette[stateID] with a negative index, and a division by Width * Length = 0.
Panics(id) == IF Lite THEN id < 0 ELSE ~Passed(id) /\ Width * Length = 0

Panic ==
  /\ Turn /\ Panics(ID(i))
  /\ pc' = "panicked"
  /\ UNCHANGED <<i, blocks>>

Continue ==
  /\ Turn /\ ~Panics(ID(i)) /\ ~Taken(i)
  /\ i' = i + 1
  /\ UNCHANGED <<blocks, pc>>

Place ==
  /\ Turn /\ ~Panics(ID(i)) /\ Taken(i)
  /\ blocks' = Append(blocks, [at |-> Placed(i), block |-> NameOf(ID(i))])
  /\ i' = i + 1
  /\ UNCHANGED pc

Next ==
  \/ Open \/ \E r \in todo : Begin(r) \/ PassOver(r)
  \/ End \/ Return \/ Panic \/ Continue \/ Place

Spec == Init /\ [][Next]_vars

-----------------------------------------------------------------------------
\* Where a schematic keeps a cell: x runs first, then z, then y.
Index(p) == p.x + Width * (p.z + Length * p.y)
Volume == [x : 0..(Width - 1), y : 0..(Height - 1), z : 0..(Length - 1)]

\* Bit b of packed words, zero past their end, and the number k bits from b on
\* write, the lowest first.
Bit(words, b) ==
  IF b \div W < Len(words)
  THEN ((words[(b \div W) + 1] % 2^W) \div 2^(b % W)) % 2 ELSE 0
Number(words, b, k) ==
  LET low[j \in 0..k] == IF j = 0 THEN 0
                          ELSE low[j - 1] + 2^(j - 1) * Bit(words, b + (j - 1))
  IN low[k]
FileID(n) == IF Lite THEN Number(reg.data, n * Bits, Bits) ELSE reg.data[n + 1]

TypeOK ==
  /\ todo \subseteq file.regions /\ IsRegion(reg)
  /\ i \in Nat /\ start \in 0..Len(blocks)
  /\ blocks \in Seq([at : [x : Nat, y : Nat, z : Nat], block : Names])
  /\ pc \in {"open", "error", "region", "loop", "done", "panicked"}

\* The blocks of a region lie in its volume, each in the cell the file keeps it
\* in, no two in one and in the file's order (nbtschematic.go:61, :121, :221).
InFileOrder ==
  \A k \in (start + 1)..Len(blocks) :
    /\ blocks[k].at \in Volume /\ Index(blocks[k].at) < i
    /\ \A j \in (start + 1)..(k - 1) : Index(blocks[j].at) < Index(blocks[k].at)

\* The cells up to entry i that hold a block, going by the file.
Cells == {p \in Volume : Index(p) < i /\ ~Passed(FileID(Index(p)))}

\* Those the file has in all: of the cells it has an entry for, one that begins
\* before the data end.
Present(n) == IF Lite THEN LongIdx(n) < Len(reg.data) ELSE n < Len(reg.data)
FileCells == {p \in Volume : Present(Index(p)) /\ ~Passed(FileID(Index(p)))}

\* So far the blocks of a region are those the file has, none missing and none
\* made up, however the entries straddle the words (nbtschematic.go:200-211),
\* and a region that is left has given them all; an entry of more than W bits is
\* beyond what two words hold.
BlocksOfTheFile ==
  (Lite => Bits <= W) =>
    /\ {blocks[k] : k \in (start + 1)..Len(blocks)}
         = {[at |-> p, block |-> NameOf(FileID(Index(p)))] : p \in Cells}
    /\ Len(blocks) = start + Cardinality(Cells)
    /\ pc \in {"region", "done"} => Cells = FileCells

\* A parser panics only on a block of an empty volume, or on a negative word of
\* which an entry takes the sign bit (nbtschematic.go:61, :121, :216).
PanicsOnlyFor ==
  pc = "panicked" =>
    \/ ~Lite /\ Width * Length = 0
    \/ Lite /\ Bits > W
    \/ Lite /\ (Straddles(i) \/ Bits = W) /\ reg.data[LongIdx(i) + 1] < 0
=============================================================================
