------------------------------- MODULE MCFiles -------------------------------
EXTENDS Files, TLC

MCNames == {"", "air", "stone", "dirt", "minecraft:dirt", "cave_air", "stairs"}
MCClean == [n \in MCNames |-> IF n = "minecraft:dirt" THEN "dirt" ELSE n]
MCHasAir == {"air", "cave_air", "stairs"}
MCLegacy == 0 :> "air" @@ 1 :> "stone" @@ 3 :> "dirt"

File(ext, regions) == [ext |-> ext, regions |-> regions]
Region(w, h, l, data, palette) ==
  [ok |-> TRUE, w |-> w, h |-> h, l |-> l, data |-> data, palette |-> palette]

UpTo(S, n) == UNION {[1..m -> S] : m \in 0..n}
Sizes == {<<1, 1, 1>>, <<2, 1, 1>>, <<1, 2, 1>>, <<1, 1, 2>>, <<2, 2, 1>>, <<2, 1, 2>>,
          <<0, 2, 2>>, <<2, 0, 2>>, <<2, 2, 0>>, <<2, 2, 2>>, <<1, 2, 3>>, <<3, 2, 1>>}

\* Entries for more and for fewer cells than the volume has.
Classics == {File(ext, {Region(s[1], s[2], s[3], d, << >>)}) :
              ext \in {".schematic"}, s \in Sizes, d \in UpTo({0, 1, 9}, 5)}

SpongePalettes == {0 :> "air" @@ 1 :> "minecraft:dirt" @@ 2 :> "stairs",
                   0 :> "stone" @@ 2 :> "dirt"}
Sponge == {File(".schem", {Region(s[1], s[2], s[3], d, p)}) :
             s \in Sizes, d \in UpTo({0, 1, 2}, 4), p \in SpongePalettes}

\* Two names, five that straddle a word of eight bits, eight and nine.
List(names) == [k \in 0..(Len(names) - 1) |-> names[k + 1]]
Five == <<"air", "stone", "minecraft:dirt", "", "cave_air">>
LitePalettes == {List(SubSeq(Five, 1, 2)), List(Five),
                 List(Five \o <<"stone", "dirt">>),
                 List(Five \o <<"stone", "dirt", "stairs">>),
                 List(Five \o <<"stone", "dirt", "stairs", "stone">>)}
Words == {-128, -127, -60, -1, 0, 1, 35, 66, 127}
LiteSizes == {<<2, 1, 2>>, <<1, 2, 1>>, <<-2, 1, -1>>, <<2, 2, -1>>, <<0, 1, 1>>}
Litematica == {File(".litematic", {Region(s[1], s[2], s[3], d, p)}) :
                 s \in LiteSizes, d \in UpTo(Words, 3), p \in LitePalettes}

\* Two regions in either order, one that is passed over, what is no schematic.
Small == Region(1, 1, 1, <<1>>, List(SubSeq(Five, 1, 2)))
Others ==
  {File(".litematic", {Small, Region(1, 2, 1, <<17>>, List(SubSeq(Five, 1, 2)))}),
   File(".litematic", {Small, [Small EXCEPT !.ok = FALSE]}),
   File(".nbt", {Small}), File(".json", {Small}),
   File(".schem", {[Small EXCEPT !.ok = FALSE]})}

MCSchematics == Classics \cup Sponge \cup Litematica \cup Others
=============================================================================
