-------------------------------- MODULE Clib --------------------------------
(***************************************************************************)
(* Functions of klib: bit searches and bitmaps, memory and strings,        *)
(* formatted output and time.  call is the call under way, with its        *)
(* result.                                                                 *)
(***************************************************************************)
EXTENDS Integers, Sequences, SequencesExt, FiniteSets, FiniteSetsExt

-----------------------------------------------------------------------------
(* Bit searches and bitmaps (klib/bitops.c, include/klib/bitops.h).        *)
(*                                                                         *)
(* A word of w bits is the set of its bits that are 1, from 0; a bitmap is *)
(* a sequence of words.  The machine applies the operations of bitops.h to *)
(* two bitmaps of Words words of Width bits; Bits are the bits it sets and *)
(* clears one at a time.                                                   *)
CONSTANTS Width, Words, Bits

ASSUME BitmapAssumption ==
    Width \in {16, 32, 64} /\ Words \in Nat \ {0} /\ Bits \subseteq 0 .. Width * Words - 1

VARIABLES bm,     \* bm[1], bm[2] : bitmaps
          holds   \* holds[1], holds[2] : the bits each of them should hold
bitVars == <<bm, holds>>

-----------------------------------------------------------------------------
(* Binary search for a bit: b is the length of the half that is looked at. *)

Halves(w) == SelectSeq(<<32, 16, 8, 4, 2, 1>>, LAMBDA b : 2 * b <= w)
ShiftRight(n, b)   == {i - b : i \in {j \in n : j >= b}}
ShiftLeft(n, b, w) == {i + b : i \in {j \in n : j + b < w}}

bitops_ffs(n, w) ==
    LET Look(s, b) == IF s.n \cap 0 .. b - 1 = {}
                        THEN [n |-> ShiftRight(s.n, b), v |-> s.v + b] ELSE s
    IN  IF n = {} THEN 0 ELSE FoldLeft(Look, [n |-> n, v |-> 1], Halves(w)).v
\* A faulty variant: the last halving, to one bit, is left out.
bitops_flsShort(n, w) ==
    LET Look(s, b) == IF s.n \cap w - b .. w - 1 = {}
                        THEN [n |-> ShiftLeft(s.n, b, w), v |-> s.v - b] ELSE s
    IN  IF n = {} THEN 0 ELSE FoldLeft(Look, [n |-> n, v |-> w], Front(Halves(w))).v
bitops_fls(n, w) ==
    LET Look(s, b) == IF s.n \cap w - b .. w - 1 = {}
                        THEN [n |-> ShiftLeft(s.n, b, w), v |-> s.v - b] ELSE s
    IN  IF n = {} THEN 0 ELSE FoldLeft(Look, [n |-> n, v |-> w], Halves(w)).v

(* The same over the words of a bitmap, from its front or from its back.   *)
Complement(n) == (0 .. Width - 1) \ n
FirstHit(offs) ==
    LET hit == {i \in DOMAIN offs : offs[i] # 0}
    IN  IF hit = {} THEN 0 ELSE Width * (Min(hit) - 1) + offs[Min(hit)]
LastHit(offs) ==
    LET hit == {i \in DOMAIN offs : offs[i] # 0}
    IN  IF hit = {} THEN 0 ELSE Width * (Max(hit) - 1) + offs[Max(hit)]
__bitops_ffs(v) == FirstHit([i \in DOMAIN v |-> bitops_ffs(v[i], Width)])
__bitops_fls(v) == LastHit([i \in DOMAIN v |-> bitops_fls(v[i], Width)])
__bitops_ffc(v) == FirstHit([i \in DOMAIN v |-> bitops_ffs(Complement(v[i]), Width)])
__bitops_flc(v) == LastHit([i \in DOMAIN v |-> bitops_fls(Complement(v[i]), Width)])
__bitops_equal(v1, v2) == Len(v1) = Len(v2) /\ \A i \in DOMAIN v1 : v1[i] = v2[i]

bitops_ilog2(n, w) == bitops_fls(n, w) - 1
__BITMAP_INDEX_SHIFT == bitops_ilog2({i \in 0 .. 15 : 2 ^ i = Width}, 64)
__BITMAP_INDEX(n)  == n \div 2 ^ __BITMAP_INDEX_SHIFT + 1
__BITMAP_OFFSET(n) == n % Width

bitops_set(n, v)   == [v EXCEPT ![__BITMAP_INDEX(n)] = @ \cup {__BITMAP_OFFSET(n)}]
bitops_clr(n, v)   == [v EXCEPT ![__BITMAP_INDEX(n)] = @ \ {__BITMAP_OFFSET(n)}]
bitops_isset(n, v) == __BITMAP_OFFSET(n) \in v[__BITMAP_INDEX(n)]
bitops_zero == [i \in 1 .. Words |-> {}]
bitops_fill == [i \in 1 .. Words |-> 0 .. Width - 1]
bitops_inv(v)      == [i \in DOMAIN v |-> Complement(v[i])]
bitops_and(v1, v2) == [i \in DOMAIN v1 |-> v1[i] \cap v2[i]]
bitops_or(v1, v2)  == [i \in DOMAIN v1 |-> v1[i] \cup v2[i]]
bitops_xor(v1, v2) == [i \in DOMAIN v1 |-> (v1[i] \cup v2[i]) \ (v1[i] \cap v2[i])]
bitops_is_empty(v) == __bitops_ffs(v) = 0
bitops_copy(v)     == [i \in DOMAIN v |-> v[i]]

-----------------------------------------------------------------------------
BitsInit == bm = [k \in 1 .. 2 |-> bitops_zero] /\ holds = [k \in 1 .. 2 |-> {}]

All == 0 .. Width * Words - 1
Assign(k, v, h) == bm' = [bm EXCEPT ![k] = v] /\ holds' = [holds EXCEPT ![k] = h]
BitsStep ==
    \/ \E k \in 1 .. 2, n \in Bits : Assign(k, bitops_set(n, bm[k]), holds[k] \cup {n})
    \/ \E k \in 1 .. 2, n \in Bits : Assign(k, bitops_clr(n, bm[k]), holds[k] \ {n})
    \/ Assign(1, bitops_zero, {})
    \/ Assign(1, bitops_fill, All)
    \/ Assign(1, bitops_inv(bm[1]), All \ holds[1])
    \/ Assign(2, bitops_copy(bm[1]), holds[1])
    \/ Assign(1, bitops_and(bm[1], bm[2]), holds[1] \cap holds[2])
    \/ Assign(1, bitops_or(bm[1], bm[2]), holds[1] \cup holds[2])
    \/ Assign(1, bitops_xor(bm[1], bm[2]), (holds[1] \cup holds[2]) \ (holds[1] \cap holds[2]))

(* What a search returns: a position from 1, and 0 when there is none.     *)
Lowest(S)  == IF S = {} THEN 0 ELSE Min(S) + 1
Highest(S) == IF S = {} THEN 0 ELSE Max(S) + 1

(* Whatever was set, cleared and combined, across the boundary between two *)
(* words, the searches for the first and the last bit that is set or clear *)
(* find it, a test finds exactly the bits that the bitmap holds, and two   *)
(* bitmaps are equal when they hold the same.  The scheduler finds a       *)
(* thread, and a thread its identifier, by these searches (klib/bitops.c). *)
SearchesFind ==
    /\ \A k \in 1 .. 2 :
         LET v == bm[k]  h == holds[k]
         IN  /\ __bitops_ffs(v) = Lowest(h) /\ __bitops_fls(v) = Highest(h)
             /\ __bitops_ffc(v) = Lowest(All \ h) /\ __bitops_flc(v) = Highest(All \ h)
             /\ bitops_is_empty(v) <=> h = {}
             /\ \A n \in All : bitops_isset(n, v) <=> n \in h
    /\ __bitops_equal(bm[1], bm[2]) <=> holds[1] = holds[2]

-----------------------------------------------------------------------------
(* The memory and string functions of klib (klib/mem*.c, klib/str*.c).     *)
(*                                                                         *)
(* Memory is a function from addresses to bytes, 0 being aligned to eight; *)
(* a string is a sequence of characters that ends with NUL.  A loop of the *)
(* code is the index at which it stops.  A pointer into a string is an     *)
(* index, the null pointer is 0.                                           *)
NUL == 0
Bytes(s) == SubSeq(s, 1, Len(s) - 1)          \* what stands before NUL
Str(s)   == Append(s, NUL)
First(S) == IF S = {} THEN 0 ELSE Min(S)
CharAt(s, i) == IF i \in DOMAIN s THEN s[i] ELSE NUL

-----------------------------------------------------------------------------
Indices(n)     == [i \in 1 .. n |-> i - 1]
memcpy(m, d, s, n) ==
    LET Step(a, i) == [a EXCEPT ![d + i] = a[s + i]] IN FoldLeft(Step, m, Indices(n))
memmove(m, d, s, n) ==
    LET Step(a, i) == [a EXCEPT ![d + i] = a[s + i]]
    IN  IF d = s THEN m
        ELSE IF s < d /\ d < s + n THEN FoldLeft(Step, m, Reverse(Indices(n)))
        ELSE memcpy(m, d, s, n)

(* memset fills by words of eight and four bytes where it can.  p is cp8,  *)
(* q is cp32 and n is len; p does not follow the words of four bytes.      *)
Fill(m, from, n, c) == [a \in DOMAIN m |-> IF a \in from .. from + n - 1 THEN c ELSE m[a]]
RECURSIVE retry64(_, _, _, _), retry32(_, _, _, _, _), FillBytes(_, _, _, _)
Words32(m, p, n, c) ==
    IF p % 4 = 0 /\ n >= 4 THEN retry32(m, p, p, n, c) ELSE FillBytes(m, p, n, c)
retry64(m, p, n, c) ==
    LET k == 8 * (n \div 8) IN Words32(Fill(m, p, k, c), p + k, n - k, c)
retry32(m, p, q, n, c) ==
    IF n < 4 THEN FillBytes(m, p, n, c)
    ELSE IF p % 8 = 0 /\ n >= 8 THEN retry64(Fill(m, q, 4, c), q + 4, n, c)
    ELSE retry32(Fill(m, q, 4, c), p, q + 4, n - 4, c)
FillBytes(m, p, n, c) ==
    IF n = 0 THEN m
    ELSE LET m1 == Fill(m, p, 1, c)
         IN  IF (p + 1) % 8 = 0 /\ n - 1 >= 8 THEN retry64(m1, p + 1, n - 1, c)
             ELSE IF (p + 1) % 4 = 0 /\ n - 1 >= 4 THEN retry32(m1, p + 1, p + 1, n - 1, c)
             ELSE FillBytes(m1, p + 1, n - 1, c)
memset(m, s, c, n) ==
    IF s % 8 = 0 /\ n >= 8 THEN retry64(m, s, n, c) ELSE Words32(m, s, n, c)

SignedChar(i) == ((i + 128) % 256) - 128
memcmp(m, a, b, n) ==
    LET i == First({j \in 1 .. n : m[a + j - 1] # m[b + j - 1]})
    IN  IF i = 0 THEN 0 ELSE SignedChar(m[a + i - 1] - m[b + i - 1])
memchr(m, s, c, n) == First({j \in 1 .. n : m[s + j - 1] = c})

-----------------------------------------------------------------------------
toupper(c) == IF c \in 97 .. 122 THEN c - 32 ELSE c
strlen(s)     == Min({i \in DOMAIN s : s[i] = NUL}) - 1
strnlen(s, n) == Min({i \in 1 .. Min({n + 1, Len(s)}) : i = n + 1 \/ s[i] = NUL}) - 1
strchr(s, c)  == LET i == Min({j \in DOMAIN s : s[j] \in {c, NUL}})
                 IN  IF s[i] = c THEN i ELSE 0
strrchr(s, c) == LET hits == {j \in 1 .. strlen(s) : s[j] = c}
                 IN  IF hits # {} THEN Max(hits) ELSE IF c # NUL THEN 0 ELSE 1
strcmp(a, b) ==
    LET i == Min({j \in DOMAIN a : a[j] = NUL \/ a[j] # CharAt(b, j)}) IN a[i] - b[i]
strcasecmp(a, b) ==
    LET i == Min({j \in DOMAIN a : a[j] = NUL \/ toupper(a[j]) # toupper(CharAt(b, j))}) IN a[i] - b[i]
\* The loop of strncmp stops at a difference, or leaves the last result.
Compare(a, b, n, D(_, _)) ==
    LET i == Min({j \in 1 .. Min({n + 1, Len(a)}) :
                      j = n + 1 \/ a[j] = NUL \/ D(a[j], CharAt(b, j)) # 0})
    IN  IF i # n + 1 /\ a[i] # NUL THEN SignedChar(D(a[i], b[i]))
        ELSE IF i > 1 THEN 0 ELSE IF b[1] = NUL THEN 0 ELSE -1
strncmp(a, b, n)     == LET D(x, y) == x - y IN Compare(a, b, n, D)
strncasecmp(a, b, n) == LET D(x, y) == toupper(x) - toupper(y) IN Compare(a, b, n, D)

\* dest is a buffer; what the functions leave in it.
Over(dest, at, s) == [i \in DOMAIN dest |-> IF i - at + 1 \in DOMAIN s THEN s[i - at + 1] ELSE dest[i]]
strcpy(dest, src) == Over(dest, 1, SubSeq(src, 1, strlen(src) + 1))
strncpy(dest, src, n) == Over(dest, 1, SubSeq(src, 1, strnlen(src, n)))
strcat(dest, src) == Over(dest, strlen(dest) + 1, SubSeq(src, 1, strlen(src) + 1))
strncat(dest, src, n) == Over(dest, strlen(dest) + 1, Str(SubSeq(src, 1, strnlen(src, n))))

strspn(s, accept) ==
    IF s[1] = NUL THEN 0
    ELSE Min({i \in DOMAIN s : s[i] \notin ToSet(Bytes(accept))}) - 1
strcspn(s, reject) ==
    IF s[1] = NUL THEN 0 ELSE Min({i \in DOMAIN s : s[i] \in ToSet(reject)}) - 1
strstr(hay, needle) ==
    LET Match(i) == LET j == Min({k \in DOMAIN needle :
                                     \/ needle[k] = NUL \/ CharAt(hay, i + k - 1) = NUL
                                     \/ CharAt(hay, i + k - 1) # needle[k]})
                    IN  needle[j] = NUL
    IN  First({i \in 1 .. strlen(hay) : hay[i] = needle[1] /\ Match(i)})

(* One call of strtok_r.  It goes on from save, and not from its argument. *)
From(s, i) == SubSeq(s, i, Len(s))
strtok_r(s, delim, save) ==
    IF save = 0 THEN [s |-> s, tok |-> 0, save |-> 0]
    ELSE LET str == save + strspn(From(s, save), delim)
             end == str + strcspn(From(s, str), delim)
         IN  IF s[str] = NUL THEN [s |-> s, tok |-> 0, save |-> 0]
             ELSE IF s[end] # NUL THEN [s |-> [s EXCEPT ![end] = NUL], tok |-> str, save |-> end + 1]
             ELSE [s |-> s, tok |-> str, save |-> 0]

-----------------------------------------------------------------------------
(* Formatted output (klib/kprintf.c).                                      *)
(*                                                                         *)
(* A format is a sequence of items: a literal character, or a conversion   *)
(* with its flags, its width and precision (0 when the format has none)    *)
(* and its argument.  A character is a number: a digit is its value, and   *)
(* the others are named below.  The local variables of kvprintf that       *)
(* outlive a conversion (width is not one of them) are carried from item   *)
(* to item: d and rc are the output so far, dwidth, tmp and discard are    *)
(* the rest.                                                               *)

BLANK == -1
MINUS == -2
PERCENT == -3
HEXMARK == -4                               \* the x of 0x
LETTER == -5                                \* a character without a meaning
Rep(c, n) == [i \in 1 .. (IF n > 0 THEN n ELSE 0) |-> c]

Upper(c, upper) == IF upper /\ c > 9 THEN c + 100 ELSE c    \* ktoupper of a letter
MaxDigits == 6      \* of the numbers of the model
\* The digits of num, the first one first.
ksprintn(num, base, upper) ==
    LET len == Min({k \in 1 .. MaxDigits : num < base ^ k})
    IN  [i \in 1 .. len |-> Upper((num \div base ^ (len - i)) % base, upper)]
ksprint_binary(num, bits) ==
    [i \in 1 .. bits |-> IF bits - i > 30 THEN 0 ELSE (num \div 2 ^ (bits - i)) % 2]

(* The argument as its length modifier has it read; the values of the      *)
(* model fit an int.  A char has no sign on this machine.                  *)
Argument(it) ==
    LET short == it.arg % 2 ^ 16
    IN  CASE it.size = "hh" -> it.arg % 2 ^ 8
          [] it.size = "h"  -> IF it.signed /\ short >= 2 ^ 15 THEN short - 2 ^ 16 ELSE short
          [] OTHER          -> it.arg

Emit(s, chars) == [s EXCEPT !.out = @ \o chars]

(* The part from the label number to the end of the case.  w0, w1 and w2   *)
(* are width after each of the tests that may subtract tmp from it; a loop *)
(* that pads leaves -1.                                                    *)
PadWidth(width, tmp) == IF width - tmp > 0 THEN -1 ELSE width - tmp
Number(s, it) ==
    LET arg   == Argument(it)
        neg   == it.signed /\ arg < 0
        num   == IF neg THEN - arg ELSE arg
        sharp == IF it.conv = "p" THEN it.width = 0 ELSE "#" \in it.flags
        left  == "-" \in it.flags
        pad   == IF "0" \in it.flags THEN 0 ELSE BLANK
        digits == IF it.base = 2 THEN ksprint_binary(num, 32)
                  ELSE ksprintn(num, it.base, it.conv = "X")
        prefix == IF ~ sharp \/ num = 0 THEN <<>>
                  ELSE IF it.base = 8 THEN <<0>> ELSE IF it.base = 16 THEN <<0, HEXMARK>> ELSE <<>>
        tmp   == IF it.base = 2 THEN s.tmp
                 ELSE Len(digits) + Len(prefix) + (IF neg THEN 1 ELSE 0)
        front == ~ left /\ it.base # 2
        w0    == it.width
        pad1  == IF front /\ pad # 0 /\ w0 # 0 THEN w0 - tmp ELSE 0
        w1    == IF front /\ pad # 0 /\ w0 # 0 THEN PadWidth(w0, tmp) ELSE w0
        pad2  == IF front /\ w1 # 0 THEN w1 - tmp ELSE 0
        w2    == IF front /\ w1 # 0 THEN PadWidth(w1, tmp) ELSE w1
        pad3  == IF left /\ w2 # 0 THEN w2 - tmp ELSE 0
        sign  == IF neg /\ it.base # 2 THEN <<MINUS>> ELSE <<>>
        pre   == IF it.base = 2 THEN <<>> ELSE Rep(pad, pad1) \o sign \o prefix \o Rep(pad, pad2)
    IN  [Emit(s, pre \o digits \o Rep(pad, pad3)) EXCEPT !.tmp = tmp]

String(s, it) ==
    LET dwidth == IF it.dwidth # 0 THEN it.dwidth ELSE s.dwidth
        n     == IF "." \in it.flags THEN Min({dwidth, Len(it.arg)}) ELSE Len(it.arg)
        width == it.width - n
        left  == "-" \in it.flags
        pad   == Rep(IF "0" \in it.flags THEN 0 ELSE BLANK, width)
    IN  [Emit(s, (IF left THEN <<>> ELSE pad) \o SubSeq(it.arg, 1, n)
                 \o (IF left THEN pad ELSE <<>>)) EXCEPT !.dwidth = dwidth]

(* A conversion that the switch does not know is copied, and after it      *)
(* every % is an ordinary character.                                       *)
Conversion(s, it) ==
    CASE it.conv = "%" -> Emit(s, <<PERCENT>>)
      [] it.conv = "c" -> Emit(s, <<it.arg>>)
      [] it.conv = "s" -> String(s, it)
      [] it.conv = "?" -> [Emit(s, <<PERCENT, LETTER>>) EXCEPT !.discard = TRUE]
      [] OTHER         -> Number(s, it)

Full(s, len) == Len(s.out) >= len - 1
(* A literal is stored while there is room; a conversion is not limited.   *)
(* Conversions that are copied as text have neither flags nor width here.  *)
Text(it) == IF it.conv = "" THEN <<it.arg>> ELSE <<PERCENT, LETTER>>
Literal(s, c, len) ==
    IF s.full THEN s ELSE IF Full(s, len) THEN [s EXCEPT !.full = TRUE] ELSE Emit(s, <<c>>)
Item(s, it, len) ==
    LET Put(a, c) == Literal(a, c, len)
    IN  IF s.full THEN s
        ELSE IF it.conv = "" \/ s.discard THEN FoldLeft(Put, s, Text(it))
        ELSE Conversion(s, it)

(* The length that kvprintf returns, and what stands in the buffer before  *)
(* the NUL that ksnprintf puts there.                                      *)
kvprintf(len, fmt) ==
    LET Step(s, it) == Item(s, it, len)
        end == FoldLeft(Step, [out |-> <<>>, tmp |-> 0, dwidth |-> 0,
                               discard |-> FALSE, full |-> FALSE], fmt)
        rc  == IF Len(end.out) >= len - 1 THEN len - 1 ELSE Len(end.out)
    IN  IF len = 0 THEN [rc |-> 0, out |-> <<>>]
        ELSE [rc |-> rc, out |-> end.out]
ksnprintf(size, fmt) == LET r == kvprintf(size, fmt) IN SubSeq(r.out, 1, r.rc)

-----------------------------------------------------------------------------
(* Conversion between epoch time and calendar time (klib/epoch_time.c).    *)
(*                                                                         *)
(* A time is a pair of the days since 1970-01-01 and the second of the     *)
(* day.  The code counts seconds in 64 bits and takes the day with a       *)
(* truncating division that it corrects when the remainder is negative,    *)
(* which is the pair.  The other divisions truncate, as C's do.  The years *)
(* of the model are far from the limits of int, so the range checks of     *)
(* __secs_to_tm never fire and are left out.                               *)

CDiv(a, b) == IF a >= 0 THEN a \div b ELSE - ((- a) \div b)
CMod(a, b) == a - b * CDiv(a, b)

SECS_PER_DAY  == 86400
DAYS_PER_YEAR == 365
DAYS_PER_400Y == DAYS_PER_YEAR * 400 + 97
DAYS_PER_100Y == DAYS_PER_YEAR * 100 + 24
DAYS_PER_4Y   == DAYS_PER_YEAR * 4 + 1
MILLENNIUM_DAYS == 10957                      \* MILLENNIUM_SECS, in days
LEAPOCH_DAYS  == MILLENNIUM_DAYS + 31 + 29    \* LEAPOCH, in days
mar2feb_days_in_month == <<31, 30, 31, 30, 31, 31, 30, 31, 30, 31, 31, 29>>
days_through_month == <<0, 31, 59, 90, 120, 151, 181, 212, 243, 273, 304, 334>>

Less(n, top) == IF n = top THEN n - 1 ELSE n

__secs_to_tm(t) ==
    LET days    == t.day - LEAPOCH_DAYS
        wday0   == CMod(3 + days, 7)
        before  == CMod(days, DAYS_PER_400Y) < 0
        qc      == CDiv(days, DAYS_PER_400Y) - (IF before THEN 1 ELSE 0)
        rem400  == CMod(days, DAYS_PER_400Y) + (IF before THEN DAYS_PER_400Y ELSE 0)
        c       == Less(rem400 \div DAYS_PER_100Y, 4)
        rem100  == rem400 - c * DAYS_PER_100Y
        q       == Less(rem100 \div DAYS_PER_4Y, 25)
        rem4    == rem100 - q * DAYS_PER_4Y
        ry      == Less(rem4 \div DAYS_PER_YEAR, 4)
        rem     == rem4 - ry * DAYS_PER_YEAR
        leap    == IF ry = 0 /\ (q # 0 \/ c = 0) THEN 1 ELSE 0
        yday0   == rem + 31 + 28 + leap
        Start[k \in 1 .. 12] == IF k = 1 THEN 0 ELSE Start[k - 1] + mar2feb_days_in_month[k - 1]
        months  == CHOOSE k \in 0 .. 11 :
                       /\ Start[k + 1] <= rem
                       /\ rem < Start[k + 1] + mar2feb_days_in_month[k + 1]
        over    == months >= 10
    IN  [year |-> ry + 4 * q + 100 * c + 400 * qc + (IF over THEN 1 ELSE 0) + 100,
         mon  |-> (IF over THEN months - 12 ELSE months) + 2,
         mday |-> rem - Start[months + 1] + 1,
         wday |-> IF wday0 < 0 THEN wday0 + 7 ELSE wday0,
         yday |-> IF yday0 >= DAYS_PER_YEAR + leap THEN yday0 - (DAYS_PER_YEAR + leap) ELSE yday0,
         hour |-> t.sec \div 3600, min |-> (t.sec \div 60) % 60, sec |-> t.sec % 60]

__month_to_days(month, is_leap) ==
    days_through_month[month + 1] + (IF is_leap /\ month >= 2 THEN 1 ELSE 0)

(* The first test of __year_to_secs is unsigned: it holds for 2 .. 138.    *)
YearsBefore2038(year) ==
    LET y == year - 68
        is_leap == CMod(y, 4) = 0
    IN  [days |-> DAYS_PER_YEAR * (year - 70) + CDiv(y, 4) - (IF is_leap THEN 1 ELSE 0),
         is_leap |-> is_leap]
CenturyYears(year) ==
    LET rem0    == CMod(year - 100, 400)
        cycles  == CDiv(year - 100, 400) - (IF rem0 < 0 THEN 1 ELSE 0)
        rem400  == IF rem0 < 0 THEN rem0 + 400 ELSE rem0
        century == rem400 \div 100
        rem     == rem400 - 100 * century
        is_leap == IF rem = 0 THEN rem400 = 0 ELSE rem % 4 = 0
        leaps   == (IF rem = 0 THEN 0 ELSE rem \div 4)
                   + 97 * cycles + 24 * century - (IF is_leap THEN 1 ELSE 0)
    IN  [days |-> (year - 100) * DAYS_PER_YEAR + leaps + MILLENNIUM_DAYS + 1,
         is_leap |-> is_leap]
__year_to_days(year) ==
    IF year \in 2 .. 138 THEN YearsBefore2038(year) ELSE CenturyYears(year)

\* A faulty variant: a month before January stays in its year.
__tm_to_secsSameYear(tm) ==
    LET m == CMod(tm.mon, 12)
        y == __year_to_days(tm.year + CDiv(tm.mon, 12))
        s == 3600 * tm.hour + 60 * tm.min + tm.sec
    IN  [day |-> y.days + __month_to_days(IF m < 0 THEN m + 12 ELSE m, y.is_leap)
                 + (tm.mday - 1) + s \div SECS_PER_DAY,
         sec |-> s % SECS_PER_DAY]
__tm_to_secs(tm) ==
    LET m    == CMod(tm.mon, 12)
        year == tm.year + CDiv(tm.mon, 12) - (IF m < 0 THEN 1 ELSE 0)
        y    == __year_to_days(year)
        s    == 3600 * tm.hour + 60 * tm.min + tm.sec
    IN  [day |-> y.days + __month_to_days(IF m < 0 THEN m + 12 ELSE m, y.is_leap)
                 + (tm.mday - 1) + s \div SECS_PER_DAY,
         sec |-> s % SECS_PER_DAY]

clock_mk_epoch_time(tm) ==
    LET t == __tm_to_secs(tm) IN [t |-> t, tm |-> __secs_to_tm(t)]
clock_epoch_time_to_tm(t) == __secs_to_tm(t)

-----------------------------------------------------------------------------
(* The reference: the Gregorian calendar, by counting.                     *)
Leap(y) == y % 4 = 0 /\ (y % 100 # 0 \/ y % 400 = 0)
LeapsIn(from, to) == {y \in from .. to : Leap(y)}
MonthDays(y) == <<31, IF Leap(y) THEN 29 ELSE 28, 31, 30, 31, 30, 31, 31, 30, 31, 30, 31>>

-----------------------------------------------------------------------------
(* The calls.                                                              *)

CONSTANTS
    MemSize,     \* the bytes of memory that memmove and memset are tried on
    Alphabet,    \* the characters of the strings
    StrLen,      \* their length
    Years        \* the years whose dates are converted

VARIABLE call

clibVars == <<call>>
NoCall == [fn |-> "none"]
ClibInit == call = NoCall

Mem0 == [a \in 0 .. MemSize - 1 |-> a + 1]
Mem1 == [a \in 0 .. MemSize - 1 |-> (a % 3) * 100]
Strings == {Str(s) : s \in BoundedSeq(Alphabet, StrLen)}
Buffer(s) == s \o [i \in 1 .. StrLen |-> NUL]

Calls(fn, args, res) == call = NoCall /\ call' = [fn |-> fn, args |-> args, res |-> res]

MemoryCall ==
    \E s \in 0 .. MemSize - 1, n \in 0 .. MemSize :
        /\ s + n <= MemSize
        /\ \/ Calls("memset", <<s, n>>, memset(Mem0, s, 0, n))
           \/ Calls("memchr", <<s, n>>, memchr(Mem0, s, MemSize \div 2, n))
           \/ \E d \in 0 .. MemSize - n :
                 \/ Calls("memmove", <<d, s, n>>, memmove(Mem0, d, s, n))
                 \/ /\ d + n <= s \/ s + n <= d
                    /\ Calls("memcpy", <<d, s, n>>, memcpy(Mem0, d, s, n))
                 \/ Calls("memcmp", <<d, s, n>>, memcmp(Mem1, d, s, n))

StringCall ==
    \E a, b \in Strings :
        \/ Calls("strcmp", <<a, b>>, strcmp(a, b))
        \/ Calls("strcasecmp", <<a, b>>, strcasecmp(a, b))
        \/ Calls("strcpy", <<a, b>>, strcpy(Buffer(a), b))
        \/ Calls("strcat", <<a, b>>, strcat(Buffer(a), b))
        \/ Calls("strspn", <<a, b>>, <<strspn(a, b), strcspn(a, b)>>)
        \/ Calls("strstr", <<a, b>>, strstr(a, b))
        \/ LET t1 == strtok_r(a, b, 1)
               t2 == strtok_r(t1.s, b, t1.save)
               t3 == strtok_r(t2.s, b, t2.save)
           IN  Calls("strtok_r", <<a, b>>, <<t1, t2, t3>>)
        \/ \E n \in 0 .. StrLen + 1 :
              \/ Calls("strncmp", <<a, b, n>>, <<strncmp(a, b, n), strncasecmp(a, b, n)>>)
              \/ Calls("strncpy", <<a, b, n>>, strncpy(Buffer(a), b, n))
              \/ Calls("strncat", <<a, b, n>>, strncat(Buffer(a), b, n))
CharCall ==
    \E a \in Strings, c \in Alphabet, n \in 0 .. StrLen + 1 :
        Calls("strchr", <<a, c, n>>,
              <<strlen(a), strnlen(a, n), strchr(a, c), strrchr(a, c), strchr(a, NUL)>>)

Item0 == [conv |-> "", flags |-> {}, width |-> 0, dwidth |-> 0, arg |-> LETTER,
          base |-> 10, signed |-> FALSE, size |-> ""]
Base(conv) == CASE conv = "b" -> 2 [] conv = "o" -> 8 [] conv \in {"x", "X", "p", "y"} -> 16
                [] OTHER -> 10
Numbers ==
    {[Item0 EXCEPT !.conv = c, !.flags = f, !.width = w, !.arg = v, !.base = Base(c),
                   !.signed = c \in {"d", "i", "y"}, !.size = z] :
        c \in {"d", "u", "o", "x", "X", "p", "y", "r", "b"}, f \in SUBSET {"#", "-", "0"},
        w \in {0, 1, 3, 5}, v \in {0, 7, 255, -3}, z \in {"", "h", "hh"}}
StringItems == {[Item0 EXCEPT !.conv = "s", !.flags = f, !.width = w, !.dwidth = p, !.arg = <<LETTER, 200, 201>>] :
             f \in {{}, {"-"}, {"."}, {"-", "."}}, w \in {0, 2, 5}, p \in {1, 4}}
Negative(it) == it.arg = -3 /\ ~ it.signed /\ it.size = ""    \* does not fit TLC's integers
FormatOne(it) ==
    LET fmt == <<Item0, it, Item0>> IN Calls("kprintf", <<64, fmt>>, ksnprintf(64, fmt))
FormatCall ==
    \/ \E it \in Numbers : ~ Negative(it) /\ FormatOne(it)
    \/ \E it \in StringItems : FormatOne(it)
    \/ \E len \in 0 .. 6, k \in 0 .. 5, c \in {"", "%", "?"} :
           LET fmt == [i \in 1 .. 6 |-> IF i = k THEN [Item0 EXCEPT !.conv = c] ELSE Item0]
           IN  Calls("text", <<len, fmt>>, ksnprintf(len, fmt))

Noon == 43210
Dates(y) == {<<0, 1>>, <<1, 28>>, <<1, 29>>, <<2, 1>>, <<5, 30>>, <<11, 31>>, <<12, 1>>, <<-1, 15>>, <<-13, 2>>,
             <<0, 0>>}
TimeCall ==
    \E y \in Years : \E d \in Dates(y), s \in {0, Noon, 86399} :
        LET tm == [year |-> y - 1900, mon |-> d[1], mday |-> d[2],
                   hour |-> s \div 3600, min |-> (s \div 60) % 60, sec |-> s % 60]
        IN  Calls("mk_epoch_time", <<y, d, s>>, clock_mk_epoch_time(tm))

Return == call # NoCall /\ call' = NoCall
ClibStep == MemoryCall \/ StringCall \/ CharCall \/ FormatCall \/ TimeCall \/ Return

-----------------------------------------------------------------------------
MemRange(from, n) == from .. from + n - 1
Sign3(i) == IF i < 0 THEN -1 ELSE IF i > 0 THEN 1 ELSE 0
LessThan(a, b) ==           \* two strings in the order of their characters
    \E i \in DOMAIN a \cap DOMAIN b : a[i] < b[i] /\ \A j \in 1 .. i - 1 : a[j] = b[j]
Order(a, b) == IF a = b THEN 0 ELSE IF LessThan(a, b) THEN -1 ELSE 1
UpperStr(s) == [i \in DOMAIN s |-> toupper(s[i])]
Cut(s, n) == IF n < Len(s) THEN SubSeq(s, 1, n) ELSE s
Held(s) == SubSeq(s, 1, strlen(s))

(* Where the code departs from the comments in front of its functions, and *)
(* which the properties below leave out.                                   *)
\* memset writes the last bytes after a word of four at the start of the words,
\* and leaves the end of the range as it was (klib/memset.c:72-76, 82).
UnfilledTail(s, n) ==
    LET p == s + ((4 - (s % 4)) % 4)
        r == n - (p - s)
    IN  r > 4 /\ IF p % 8 = 0 THEN r % 8 > 4 ELSE r % 4 # 0
\* memcmp keeps the difference of two bytes in a signed char (klib/memcmp.c:28).
FarBytes(x, y) == x - y \notin -128 .. 127
\* strncmp stops at the end of its first string with the last result, and with
\* no characters to compare it looks at the second (klib/strncmp.c:25-31).
StopsEarly(a, b, n) == IsPrefix(Bytes(a), Bytes(b)) \/ n = 0

MemoryCorrect ==
    LET r == call.res  x == call.args
    IN  /\ call.fn \in {"memmove", "memcpy"} =>
              \A a \in DOMAIN Mem0 :
                  r[a] = IF a \in MemRange(x[1], x[3]) THEN Mem0[x[2] + a - x[1]] ELSE Mem0[a]
        /\ call.fn = "memset" =>
              \A a \in DOMAIN Mem0 :
                  /\ a \notin MemRange(x[1], x[2]) => r[a] = Mem0[a]
                  /\ a \in MemRange(x[1], x[2]) /\ ~ UnfilledTail(x[1], x[2]) => r[a] = 0
        /\ call.fn = "memcmp" =>
              LET differ == {i \in 0 .. x[3] - 1 : Mem1[x[1] + i] # Mem1[x[2] + i]}
                  one    == Mem1[x[1] + Min(differ)]
                  other  == Mem1[x[2] + Min(differ)]
              IN  IF differ = {} THEN r = 0
                  ELSE r # 0 /\ (FarBytes(one, other) \/ Sign3(r) = Sign3(one - other))
        /\ call.fn = "memchr" =>
              LET hit == {i \in 1 .. x[2] : Mem0[x[1] + i - 1] = MemSize \div 2}
              IN  r = IF hit = {} THEN 0 ELSE Min(hit)

(* The tokens of a: the longest runs of characters that are no delimiters. *)
TokenStarts(a, delim) ==
    {i \in 1 .. Len(a) - 1 : a[i] \notin ToSet(delim) /\ (i = 1 \/ a[i - 1] \in ToSet(delim))}
StringsCorrect ==
    LET r == call.res  x == call.args  a == x[1]  b == x[2]
    IN  /\ call.fn = "strcmp" => Sign3(r) = Order(a, b)
        /\ call.fn = "strcasecmp" => (r = 0 => UpperStr(a) = UpperStr(b))
        /\ call.fn = "strncmp" =>
              /\ ~ StopsEarly(a, b, x[3]) =>
                     Sign3(r[1]) = Order(Cut(a, x[3]), Cut(b, x[3]))
              /\ ~ StopsEarly(UpperStr(a), UpperStr(b), x[3]) =>
                     Sign3(r[2]) = Order(Cut(UpperStr(a), x[3]), Cut(UpperStr(b), x[3]))
        /\ call.fn = "strcpy"  => Held(r) = Bytes(b)
        /\ call.fn = "strcat"  => Held(r) = Bytes(a) \o Bytes(b)
        /\ call.fn = "strncat" => Held(r) = Bytes(a) \o Cut(Bytes(b), x[3])
        /\ call.fn = "strncpy" => IsPrefix(Cut(Bytes(b), x[3]), r)
        /\ call.fn = "strspn" =>
              LET In(n) == \A i \in 1 .. n : a[i] \in ToSet(Bytes(b))
                  Out(n) == \A i \in 1 .. n : a[i] \notin ToSet(Bytes(b))
              IN  /\ r[1] = Max({n \in 0 .. Len(a) - 1 : In(n)})
                  /\ r[2] = Max({n \in 0 .. Len(a) - 1 : Out(n)})
        /\ call.fn = "strstr" =>
              LET at == {i \in 1 .. Len(a) - 1 : IsPrefix(Bytes(b), From(Bytes(a), i))}
              IN  Bytes(b) # <<>> => r = First(at)
        /\ call.fn = "strtok_r" =>
              LET toks == {r[k].tok : k \in DOMAIN r} \ {0}
                  ends == r[3].s
              IN  /\ toks = TokenStarts(a, Bytes(b))
                  /\ \A t \in toks : \A i \in t .. t + strlen(From(ends, t)) - 1 :
                         a[i] \notin ToSet(Bytes(b))
        /\ call.fn = "strchr" =>
              LET hits == {i \in 1 .. Len(a) - 1 : a[i] = b}
              IN  /\ r[1] = Len(a) - 1 /\ r[2] = Min({x[3], Len(a) - 1})
                  /\ r[3] = First(hits) /\ r[4] = IF hits = {} THEN 0 ELSE Max(hits)
                  /\ r[5] = Len(a)

(* How a field should look, whatever order its parts are made in.          *)
Wide(body, it) ==
    LET pad == Rep(IF "0" \in it.flags THEN 0 ELSE BLANK, it.width - Len(body))
    IN  IF "-" \in it.flags THEN body \o pad ELSE pad \o body
Value(digits, base) ==
    LET Step(v, d) == v * base + (IF d >= 100 THEN d - 100 ELSE d) IN FoldLeft(Step, 0, digits)
FieldCorrect(it, field) ==
    LET v      == Argument(it)
        mark   == SelectSeq(field, LAMBDA c : c = MINUS)
        sharp  == v # 0 /\ (IF it.conv = "p" THEN it.width = 0 ELSE "#" \in it.flags)
        least  == Len(ksprintn(IF v < 0 THEN - v ELSE v, it.base, FALSE)) + (IF v < 0 THEN 1 ELSE 0)
                  + (IF ~ sharp THEN 0 ELSE IF it.base = 8 THEN 1 ELSE IF it.base = 16 THEN 2 ELSE 0)
        digits == SelectSeq(field, LAMBDA c : c \notin {BLANK, MINUS, HEXMARK})
    IN  CASE it.conv = "s" ->
                 field = Wide(IF "." \in it.flags THEN Cut(it.arg, it.dwidth) ELSE it.arg, it)
          [] it.base = 2 -> Value(SubSeq(field, 2, 32), 2) = v \/ "-" \in it.flags \/ v < 0
          [] OTHER ->
                 /\ Len(field) = Max({it.width, least})
                 /\ Len(mark) = (IF v < 0 THEN 1 ELSE 0)
                 /\ ("-" \notin it.flags \/ "0" \notin it.flags) =>
                        Value(digits, it.base) = IF v < 0 THEN - v ELSE v
FormatCorrect ==
    LET r == call.res  x == call.args
    IN  /\ call.fn = "kprintf" =>
              /\ r[1] = LETTER /\ r[Len(r)] = LETTER
              /\ FieldCorrect(x[2][2], SubSeq(r, 2, Len(r) - 1))
        /\ call.fn = "text" =>
              LET text == FoldLeft(LAMBDA t, it : t \o (IF it.conv = "%" THEN <<PERCENT>> ELSE Text(it)),
                                   <<>>, x[2])
              IN  r = Cut(text, IF x[1] = 0 THEN 0 ELSE x[1] - 1)

(* The first day of a year of the Gregorian calendar, and a date.          *)
NewYear(y) == IF y >= 1970 THEN 365 * (y - 1970) + Cardinality(LeapsIn(1970, y - 1))
              ELSE 365 * (y - 1970) - Cardinality(LeapsIn(y, 1969))
YearDay(y, mon) == FoldLeft(LAMBDA a, d : a + d, 0, SubSeq(MonthDays(y), 1, mon))
\* __year_to_secs counts the leap years between these years and 1968 with a
\* division that truncates, and is a day late in the ones that are no leap years.
Before1968 == 1902 .. 1967
DatesCorrect ==
    call.fn = "mk_epoch_time" =>
        LET r    == call.res
            x    == call.args
            y    == x[1] + (x[2][1] \div 12)        \* the month may be of another year
            mon  == x[2][1] % 12
            date == r.tm
        IN  y \notin Before1968 =>
            /\ r.t = [day |-> NewYear(y) + YearDay(y, mon) + x[2][2] - 1, sec |-> x[3]]
            /\ NewYear(date.year + 1900) + YearDay(date.year + 1900, date.mon) + date.mday - 1
                   = r.t.day
            /\ date.mday \in 1 .. MonthDays(date.year + 1900)[date.mon + 1]
            /\ date.yday = YearDay(date.year + 1900, date.mon) + date.mday - 1
            /\ date.wday = (r.t.day + 4) % 7        \* 1970-01-01 was a Thursday
            /\ date.hour * 3600 + date.min * 60 + date.sec = x[3]

(* The calls against their reference definitions, with what is left out.   *)
(* A move or copy takes the old contents even when the ranges overlap and  *)
(* touches nothing else (klib/memmove.c); memset stays in its range and    *)
(* fills it but for an UnfilledTail; memcmp and strncmp give the order of  *)
(* what they compare but for FarBytes and StopsEarly; strcasecmp is only   *)
(* held to finding no two strings equal that are not.  Strings are         *)
(* compared, joined, searched (strstr not for the empty string, strrchr    *)
(* not for NUL) and cut into tokens like sequences (klib/str*.c).  A field *)
(* of kvprintf has its width and its digits the value, except that digits  *)
(* padded on the right with zeros and %b with "-" or of a negative number  *)
(* are not looked at, and literal text is cut at the length of the buffer  *)
(* (klib/kprintf.c).  A date outside Before1968 is converted to the day of *)
(* the Gregorian calendar and back (klib/epoch_time.c).                    *)
CallsCorrect == MemoryCorrect /\ StringsCorrect /\ FormatCorrect /\ DatesCorrect
=============================================================================
