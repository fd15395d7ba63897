------------------------- MODULE FixedWindowProofs -------------------------
(***************************************************************************)
(* A limiter with a fixed window: it lets M events through per window of   *)
(* length W, which its first event opens.  The login limiter and the       *)
(* limiter of the certificate download work so.  Events may straddle the   *)
(* edge of a window, so the bound on any interval of length W is 2M - 1.   *)
(***************************************************************************)
EXTENDS Integers, Sequences, TLAPS

\* Two events that are 2M - 1 apart in the history h are W apart in time.
Spaced(h, M, W) ==
    \A i \in DOMAIN h :
        LET j == i + 2 * M - 1 IN j \in DOMAIN h => h[j] - h[i] >= W

\* The history h against the window that holds its last c events and was
\* opened at time s.  An event of an older window came before s; one that M
\* events of older windows follow, itself included, came a whole window
\* before s.
WindowOK(h, c, s, M, W, now) ==
    /\ h \in Seq(Int) /\ c \in 0..M /\ c <= Len(h) /\ s \in Int
    /\ c = 0 => h = <<>>
    /\ c > 0 => s <= now /\ h[Len(h) - c + 1] = s
    /\ \A i \in 1..Len(h) :
          /\ h[i] <= now
          /\ i > Len(h) - c => h[i] >= s
          /\ i <= Len(h) - c => h[i] <= s
          /\ i + M - 1 <= Len(h) - c => h[i] + W <= s
    /\ Spaced(h, M, W)

\* Nothing was let through yet.
LEMMA NothingLetThrough ==
    ASSUME NEW s \in Int, NEW M \in Nat, NEW W \in Int, NEW now \in Int
    PROVE  WindowOK(<<>>, 0, s, M, W, now)
  BY DEF WindowOK, Spaced

\* Time passes.
LEMMA TimePasses ==
    ASSUME NEW h, NEW c, NEW s, NEW M \in Nat, NEW W \in Int, NEW now \in Int, NEW later \in Int,
           now <= later, WindowOK(h, c, s, M, W, now)
    PROVE  WindowOK(h, c, s, M, W, later)
  <1>1. h \in Seq(Int) /\ \A i \in 1..Len(h) : h[i] \in Int
    BY DEF WindowOK
  <1> QED BY <1>1 DEF WindowOK

\* One more event keeps the spacing when it comes W after the event that is
\* 2M - 1 before it.
LEMMA SpacedAppend ==
    ASSUME NEW h \in Seq(Int), NEW M \in Nat \ {0}, NEW W \in Int, NEW now \in Int,
           Spaced(h, M, W),
           \A i \in 1..Len(h) : i + 2 * M - 1 = Len(h) + 1 => now - h[i] >= W
    PROVE  Spaced(Append(h, now), M, W)
  <1> DEFINE g == Append(h, now)
  <1>1. /\ Len(g) = Len(h) + 1 /\ DOMAIN g = 1..Len(h) + 1 /\ DOMAIN h = 1..Len(h)
        /\ g[Len(h) + 1] = now /\ \A i \in 1..Len(h) : g[i] = h[i]
        /\ Len(h) \in Nat
    OBVIOUS
  <1> HIDE DEF g
  <1>2. ASSUME NEW i \in DOMAIN g, i + 2 * M - 1 \in DOMAIN g
        PROVE  g[i + 2 * M - 1] - g[i] >= W
    <2>0. i \in 1..Len(h) /\ i + 2 * M - 1 \in 1..Len(h) + 1
      BY <1>1, <1>2
    <2>1. CASE i + 2 * M - 1 = Len(h) + 1
      BY <1>1, <2>0, <2>1
    <2>2. CASE i + 2 * M - 1 \in 1..Len(h)
      BY <1>1, <2>0, <2>2 DEF Spaced
    <2> QED BY <2>0, <2>1, <2>2
  <1>3. Spaced(g, M, W)
    BY <1>2 DEF Spaced
  <1> QED BY <1>3 DEF g

\* The limiter opens a window: the last one is over, or there was none.
LEMMA WindowOpens ==
    ASSUME NEW h, NEW c, NEW s, NEW M \in Nat \ {0}, NEW W \in Int, NEW now \in Int,
           WindowOK(h, c, s, M, W, now), c = 0 \/ now - s >= W, W >= 0
    PROVE  WindowOK(Append(h, now), 1, now, M, W, now)
  <1> DEFINE g == Append(h, now)
  <1>0. h \in Seq(Int) /\ c \in 0..M /\ s \in Int /\ Len(h) \in Nat /\ \A i \in 1..Len(h) : h[i] \in Int
    BY DEF WindowOK
  <1>1. /\ Len(g) = Len(h) + 1 /\ g \in Seq(Int)
        /\ g[Len(h) + 1] = now /\ \A i \in 1..Len(h) : g[i] = h[i]
    BY <1>0
  <1>2. ASSUME NEW i \in 1..Len(h) PROVE h[i] <= now /\ (i + M - 1 <= Len(h) => h[i] + W <= now)
    <2>1. h[i] <= now /\ c # 0
      BY DEF WindowOK
    <2>2. now - s >= W
      BY <2>1
    <2>3. CASE i <= Len(h) - c
      <3>1. h[i] <= s
        BY <2>3 DEF WindowOK
      <3> QED BY <1>0, <2>1, <2>2, <3>1
    <2>4. CASE i > Len(h) - c /\ i + M - 1 <= Len(h)
      <3>1. c = M /\ i = Len(h) - c + 1
        <4> DEFINE n == Len(h)
        <4>1. c \in Int /\ c <= M /\ M \in Int /\ n \in Int /\ i \in Int
          BY <1>0
        <4>2. i > n - c /\ i + M - 1 <= n
          BY <2>4
        <4> HIDE DEF n
        <4>3. c = M /\ i = n - c + 1
          BY <4>1, <4>2
        <4> QED BY <4>3 DEF n
      <3>2. h[i] = s
        BY <1>0, <2>1, <3>1 DEF WindowOK
      <3> QED BY <1>0, <2>1, <2>2, <3>2
    <2> QED BY <1>0, <2>1, <2>3, <2>4
  <1>3. Spaced(g, M, W)
    <2>1. \A i \in 1..Len(h) : i + 2 * M - 1 = Len(h) + 1 => now - h[i] >= W
      BY <1>0, <1>2
    <2> QED BY <1>0, <2>1, SpacedAppend DEF WindowOK
  <1> HIDE DEF g
  <1>4. g # <<>>
    BY <1>0, <1>1
  <1>5. ASSUME NEW i \in 1..Len(g)
        PROVE  /\ g[i] <= now
               /\ i > Len(g) - 1 => g[i] >= now
               /\ i <= Len(g) - 1 => g[i] <= now
               /\ i + M - 1 <= Len(g) - 1 => g[i] + W <= now
    <2> DEFINE n == Len(h)
    <2>0. n \in Nat /\ Len(g) = n + 1 /\ i \in 1..(n + 1) /\ g[n + 1] = now
      BY <1>0, <1>1
    <2>1. CASE i \in 1..n
      <3>1. g[i] = h[i] /\ h[i] \in Int
        BY <1>0, <1>1, <2>1
      <3>2. h[i] <= now /\ (i + M - 1 <= n => h[i] + W <= now)
        BY <1>2, <2>1
      <3> HIDE DEF n
      <3>3. Len(g) - 1 = n /\ ~(i > n)
        BY <2>0, <2>1
      <3> QED BY <3>1, <3>2, <3>3
    <2>2. CASE i = n + 1
      <3> HIDE DEF n
      <3>1. g[i] = now /\ Len(g) - 1 = n /\ ~(i <= n) /\ ~(i + M - 1 <= n)
        BY <2>0, <2>2
      <3> QED BY <3>1
    <2> HIDE DEF n
    <2>3. i \in 1..n \/ i = n + 1
      BY <2>0
    <2> QED BY <2>1, <2>2, <2>3
  <1>6. 1 \in 0..M /\ 1 <= Len(g) /\ g[Len(g) - 1 + 1] = now
    BY <1>0, <1>1
  <1>7. WindowOK(g, 1, now, M, W, now)
    BY <1>1, <1>3, <1>4, <1>5, <1>6 DEF WindowOK
  <1> QED BY <1>7 DEF g

\* The limiter counts one more event in the window that is open.
LEMMA WindowCounts ==
    ASSUME NEW h, NEW c, NEW s, NEW M \in Nat \ {0}, NEW W \in Int, NEW now \in Int,
           WindowOK(h, c, s, M, W, now), c # 0, c < M
    PROVE  WindowOK(Append(h, now), c + 1, s, M, W, now)
  <1> DEFINE g == Append(h, now)
             d == c + 1
  <1>0. /\ h \in Seq(Int) /\ c \in 0..M /\ s \in Int /\ Len(h) \in Nat
        /\ c <= Len(h) /\ s <= now /\ h[Len(h) - c + 1] = s
        /\ \A i \in 1..Len(h) : h[i] \in Int
    BY DEF WindowOK
  <1>1. /\ Len(g) = Len(h) + 1 /\ g \in Seq(Int)
        /\ g[Len(h) + 1] = now /\ \A i \in 1..Len(h) : g[i] = h[i]
    BY <1>0
  <1>2. ASSUME NEW i \in 1..Len(h), i + M - 1 <= Len(h) - c PROVE h[i] + W <= s
    BY <1>2 DEF WindowOK
  <1>3. Spaced(g, M, W)
    <2>1. \A i \in 1..Len(h) : i + 2 * M - 1 = Len(h) + 1 => now - h[i] >= W
      <3> SUFFICES ASSUME NEW i \in 1..Len(h), i + 2 * M - 1 = Len(h) + 1 PROVE now - h[i] >= W
        OBVIOUS
      <3>1. i + M - 1 <= Len(h) - c
        BY <1>0
      <3>2. h[i] + W <= s
        BY <1>2, <3>1
      <3>3. h[i] \in Int /\ s <= now /\ s \in Int
        BY <1>0
      <3> QED BY <3>2, <3>3
    <2> QED BY <1>0, <2>1, SpacedAppend DEF WindowOK
  <1> HIDE DEF g
  <1>4. ASSUME NEW i \in 1..Len(g)
        PROVE  /\ g[i] <= now
               /\ i > Len(g) - d => g[i] >= s
               /\ i <= Len(g) - d => g[i] <= s
               /\ i + M - 1 <= Len(g) - d => g[i] + W <= s
    <2>1. Len(g) - d = Len(h) - c
      BY <1>0, <1>1
    <2>2. CASE i \in 1..Len(h)
      BY <1>1, <2>1, <2>2 DEF WindowOK
    <2>3. CASE i = Len(h) + 1
      BY <1>0, <1>1, <2>1, <2>3
    <2>4. i \in 1..Len(h) \/ i = Len(h) + 1
      <3>1. Len(g) = Len(h) + 1 /\ Len(h) \in Nat
        BY <1>0, <1>1
      <3> QED BY <3>1
    <2> HIDE DEF d
    <2> QED BY <2>2, <2>3, <2>4
  <1>5. d \in 0..M /\ d <= Len(g) /\ d # 0 /\ d > 0
    BY <1>0, <1>1
  <1>6. g[Len(g) - d + 1] = s
    <2>1. Len(g) - d + 1 = Len(h) - c + 1 /\ Len(h) - c + 1 \in 1..Len(h)
      BY <1>0, <1>1
    <2> QED BY <1>0, <1>1, <2>1
  <1> HIDE DEF d
  <1>7. WindowOK(g, d, s, M, W, now)
    BY <1>0, <1>1, <1>3, <1>4, <1>5, <1>6 DEF WindowOK
  <1> QED BY <1>7 DEF g, d

=============================================================================
