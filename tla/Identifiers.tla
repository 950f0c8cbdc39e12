---------------------------- MODULE Identifiers -----------------------------
(***************************************************************************)
(* The identifiers of uuidv7.ts, as their sixteen bytes; only the layout   *)
(* of the hexadecimal is left out.  A timestamp is its six bytes.          *)
(***************************************************************************)
EXTENDS Integers, Sequences

\* What a shift of a multiple of eight divides by, its count taken modulo 32.
Weight(shift) ==
    IF shift % 32 = 0 THEN 1
    ELSE IF shift % 32 = 8 THEN 256
    ELSE IF shift % 32 = 16 THEN 256 * 256 ELSE 256 * 256 * 256

\* (counter >> shift) & 0xff.
Byte(counter, shift) == (counter \div Weight(shift)) % 256

\* Eight assignments, of which the last four repeat the others.
CounterSuffix(counter) ==
    << 0, 0, Byte(counter, 56), Byte(counter, 48), Byte(counter, 40), Byte(counter, 32),
       Byte(counter, 24), Byte(counter, 16), Byte(counter, 8), Byte(counter, 0) >>

\* The version and the variant overwrite the top of two bytes of the suffix.
Pack(timestamp, suffix) ==
    << timestamp[1], timestamp[2], timestamp[3], timestamp[4], timestamp[5], timestamp[6],
       112 + (suffix[1] % 16), suffix[2], 128 + (suffix[3] % 64), suffix[4], suffix[5],
       suffix[6], suffix[7], suffix[8], suffix[9], suffix[10] >>

uuidv7Deterministic(timestamp, counter) == Pack(timestamp, CounterSuffix(counter))

=============================================================================
