------------------------------- MODULE Bitmap -------------------------------
(***************************************************************************)
(* The bitmaps of lib/bitmap.c.  A map is the set of the bits that are one *)
(* in its buffer, its length in bits and the index of its first bit:       *)
(* [bits, size, offset], where size is 8 * map->size of the code.          *)
(***************************************************************************)
EXTENDS Integers

EOF == -1

bitmap_new(bits, size, offset) == [bits |-> bits, size |-> size, offset |-> offset]

bitmap_init(size, offset) == bitmap_new({}, size, offset)

Indices(map) == map.offset..(map.offset + map.size - 1)

bitmap_contains(map, index) == index - map.offset \in map.bits

bitmap_insert(map, index) == [map EXCEPT !.bits = @ \cup {index - map.offset}]

bitmap_remove(map, index) == [map EXCEPT !.bits = @ \ {index - map.offset}]

(* Mutant of Scan: the run of free bits is not reset by a bit in use. *)
ScanOn(map, n) ==
    LET counter[i \in 0..map.size] ==
            IF i = 0 THEN 0
            ELSE counter[i - 1] + (IF bitmap_contains(map, map.offset + i - 1) THEN 0 ELSE 1)
        ends == {i \in 1..map.size : counter[i] = n}
    IN  IF ends = {} THEN EOF
        ELSE map.offset + (CHOOSE i \in ends : \A j \in ends : i <= j) - n

(* The first loop of bitmap_insert_nbits: counter is the length of the run *)
(* of free bits that ends at each bit, the loop leaves at the first that   *)
(* is n long.                                                              *)
Scan(map, n) ==
    LET counter[i \in 0..map.size] ==
            IF i = 0 \/ bitmap_contains(map, map.offset + i - 1) THEN 0
            ELSE counter[i - 1] + 1
        ends == {i \in 1..map.size : counter[i] = n}
    IN  IF ends = {} THEN EOF
        ELSE map.offset + (CHOOSE i \in ends : \A j \in ends : i <= j) - n

(* The map after bitmap_insert_nbits, whose result is Scan(map, n). *)
bitmap_insert_nbits(map, n) ==
    LET start == Scan(map, n)
    IN  IF start = EOF THEN map
        ELSE [map EXCEPT !.bits = @ \cup {start - map.offset + i : i \in 0..(n - 1)}]
=============================================================================
