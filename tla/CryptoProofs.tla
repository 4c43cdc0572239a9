---------------------------- MODULE CryptoProofs ---------------------------
(***************************************************************************)
(* What is proved of the key encapsulation mechanisms: who gets the secret *)
(* that is sealed to a key, for any draws and any ciphertext.              *)
(***************************************************************************)
EXTENDS AlgorithmProofs

\* A unit of what can arrive as a ciphertext, whoever made it.  A point of the
\* curve is somebody's public key, in any of its encodings.
Kinds == {"zero", "noise", "X25519KEM", "ct"} \cup RealTypes
Unit == {u \in [kind : Kinds, key : Nat, draw : Nat, i : Nat] :
           u.kind = "X25519KEM" => u.i = 1}

-----------------------------------------------------------------------------
(* Units and terms *)

\* The sizes that occur.
LEMMA Sizes ==
  /\ Size("X25519KEM") = 1 /\ Size("MLKEM768Type") = 2
  /\ Size("RealMLKEM768") = 2 /\ Size("RealMLKEM1024") = 3
<1>1. /\ "X25519KEM" \notin {"MLKEM768Type", "RealMLKEM768"}
      /\ "X25519KEM" \notin {"MLKEM1024Type", "RealMLKEM1024"}
  OBVIOUS
<1>2. \A t \in {"MLKEM768Type", "RealMLKEM768"} :
        t # "X25519KEM" /\ t \notin {"MLKEM1024Type", "RealMLKEM1024"}
  OBVIOUS
<1>3. "RealMLKEM1024" # "X25519KEM" /\ "RealMLKEM1024" \notin {"MLKEM768Type", "RealMLKEM768"}
      /\ "RealMLKEM1024" \in {"MLKEM1024Type", "RealMLKEM1024"}
  OBVIOUS
<1>4. Size("X25519KEM") = 1
  BY <1>1, Zenon DEF Size
<1>5. \A t \in {"MLKEM768Type", "RealMLKEM768"} : Size(t) = 2
  BY <1>2, Zenon DEF Size
<1>6. Size("RealMLKEM1024") = 3
  BY <1>3, Zenon DEF Size
<1>7. QED
  BY <1>4, <1>5, <1>6

\* So many units of one kind.
AreUnits(kind, key, draw, n) ==
  /\ Units(kind, key, draw, n) \in Seq(Unit)
  /\ Len(Units(kind, key, draw, n)) = n
  /\ Units(kind, key, draw, n)[1] = [kind |-> kind, key |-> key, draw |-> draw, i |-> 1]

\* The draws and the numbers of units that a kind may have.
Allowed(kind, draw, n) ==
  /\ kind \in Kinds /\ draw \in Nat /\ n \in Nat \ {0}
  /\ kind = "X25519KEM" => n = 1

\* What units are.
LEMMA UnitsType ==
  ASSUME NEW kind, NEW key \in Nat, NEW draw, NEW n, Allowed(kind, draw, n)
  PROVE  AreUnits(kind, key, draw, n)
<1> DEFINE s == Units(kind, key, draw, n)
<1>1. s = [i \in 1..n |-> [kind |-> kind, key |-> key, draw |-> draw, i |-> i]]
  BY DEF Units
<1>2. \A i \in 1..n : [kind |-> kind, key |-> key, draw |-> draw, i |-> i] \in Unit
  BY DEF Unit, Allowed
<1> HIDE DEF s
<1>3. n \in Nat \ {0}
  BY DEF Allowed
<1>4. s \in Seq(Unit) /\ Len(s) = n
  BY <1>1, <1>2, <1>3
<1>5. s[1] = [kind |-> kind, key |-> key, draw |-> draw, i |-> 1]
  BY <1>1, <1>3
<1>6. QED
  BY <1>4, <1>5, Zenon DEF s, AreUnits

\* A ciphertext of ML-KEM.
LEMMA CtUnits ==
  \A t \in RealTypes, a, b \in Nat :
    AreUnits("ct", a, b, Size(t)) /\ Size(t) \in Nat \ {0}
<1> SUFFICES ASSUME NEW t \in RealTypes, NEW a \in Nat, NEW b \in Nat
             PROVE  AreUnits("ct", a, b, Size(t)) /\ Size(t) \in Nat \ {0}
  BY Zenon
<1>1. Size(t) \in Nat \ {0}
  BY Sizes DEF RealTypes
<1>2. "ct" \in Kinds /\ "ct" # "X25519KEM"
  BY DEF Kinds
<1>3. Allowed("ct", b, Size(t))
  BY <1>1, <1>2 DEF Allowed
<1>4. QED
  BY <1>1, <1>3, UnitsType, Zenon

\* The first unit of units is one.
LEMMA FirstUnit ==
  ASSUME NEW ct \in Seq(Unit), Len(ct) \in Nat \ {0}
  PROVE  ct[1] \in Unit /\ 1 \in 1..Len(ct)
<1>1. 1 \in 1..Len(ct)
  OBVIOUS
<1>2. QED
  BY <1>1, ElementOfSeq

\* A secret that one primitive makes is one term.
LEMMA TermIsOne == \A a, x, y : \E t : Term(a, x, y) = {t} /\ t.kind = a
<1> TAKE a, x, y
<1> WITNESS [kind |-> a, of |-> <<x, y>>]
<1>1. QED
  BY DEF Term

\* A term is made of what it says.
LEMMA TermsDiffer ==
  ASSUME NEW a, NEW x, NEW y, NEW b, NEW u, NEW v
  PROVE  Term(a, x, y) = Term(b, u, v) <=> a = b /\ x = u /\ y = v
<1>1. ASSUME Term(a, x, y) = Term(b, u, v) PROVE a = b /\ x = u /\ y = v
  <2>1. [kind |-> a, of |-> <<x, y>>] = [kind |-> b, of |-> <<u, v>>]
    BY <1>1 DEF Term
  <2>2. a = b /\ <<x, y>> = <<u, v>>
    BY <2>1
  <2>3. QED
    BY <2>2
<1>2. QED
  BY <1>1

\* XOR of two different terms keeps both.
LEMMA XORKeepsBoth ==
  ASSUME NEW x, NEW y, x # y
  PROVE  XOR({x}, {y}) = {x, y}
  BY DEF XOR

\* The kinds of secrets that X25519 and ML-KEM make.
DHKinds == {"dh", "dh with nobody"}
KEMKinds == RealTypes \cup {"rejected"}

\* What was opened is one term of one of these kinds, and it is that secret
\* exactly when all is right.
Yields(opened, kinds, secret, right) ==
  /\ opened.end = "ok" =>
       \E x : opened = Opened({x}) /\ x.kind \in kinds /\ ({x} = secret <=> right)
  /\ right => opened.end = "ok"

\* Whoever opens it has the secret exactly when all is right.
LEMMA YieldsSecret ==
  ASSUME NEW opened, NEW kinds, NEW secret, NEW right \in BOOLEAN,
         Yields(opened, kinds, secret, right)
  PROVE  opened.end = "ok" /\ opened.ss = secret <=> right
<1>1. CASE opened.end = "ok"
  <2>1. PICK x : opened = Opened({x}) /\ ({x} = secret <=> right)
    BY <1>1, Zenon DEF Yields
  <2>2. opened.ss = {x}
    BY <2>1 DEF Opened
  <2>3. QED
    BY <1>1, <2>1, <2>2, Zenon
<1>2. CASE opened.end # "ok"
  BY <1>2, Zenon DEF Yields
<1>3. QED
  BY <1>1, <1>2

-----------------------------------------------------------------------------
(* X25519 *)

DH(a, b) == IF a < b THEN Term("dh", a, b) ELSE Term("dh", b, a)

\* Such a secret is one term too.
LEMMA DHIsOne == \A a, b : \E t : DH(a, b) = {t} /\ t.kind = "dh"
  BY TermIsOne DEF DH

\* Both sides of an exchange compute the same, and only they do.
LEMMA DHAgrees ==
  ASSUME NEW a \in Nat, NEW b \in Nat, NEW c \in Nat, NEW d \in Nat
  PROVE  DH(a, b) = DH(c, d) <=> (a = c /\ b = d) \/ (a = d /\ b = c)
  BY TermsDiffer DEF DH

\* What curve25519.X25519 makes of any 32 bytes and a point.
LEMMA X25519Ends ==
  ASSUME NEW o \in Nat, NEW ct \in Seq(Unit)
  PROVE  /\ Len(ct) # 1 => X25519(o, ct) = Error
         /\ Len(ct) = 1 /\ ct[1].kind = "zero" => X25519(o, ct) = Error
         /\ Len(ct) = 1 /\ ct[1].kind = "X25519KEM" => X25519(o, ct) = Opened(DH(o, ct[1].key))
         /\ Len(ct) = 1 /\ ct[1].kind \notin {"zero", "X25519KEM"} =>
              X25519(o, ct) = Opened(Term("dh with nobody", o, ct[1].draw))
<1>0. "zero" # "X25519KEM"
  OBVIOUS
<1>1. ASSUME Len(ct) # 1 PROVE X25519(o, ct) = Error
  BY <1>1, Zenon DEF X25519
<1>2. ASSUME Len(ct) = 1, ct[1].kind = "zero" PROVE X25519(o, ct) = Error
  BY <1>0, <1>2, Zenon DEF X25519
<1>3. ASSUME Len(ct) = 1, ct[1].kind = "X25519KEM"
      PROVE  X25519(o, ct) = Opened(DH(o, ct[1].key))
  BY <1>0, <1>3, Zenon DEF X25519, DH
<1>4. ASSUME Len(ct) = 1, ct[1].kind # "zero", ct[1].kind # "X25519KEM"
      PROVE  X25519(o, ct) = Opened(Term("dh with nobody", o, ct[1].draw))
  BY <1>4, Zenon DEF X25519
<1>5. QED
  BY <1>1, <1>2, <1>3, <1>4

\* The canonical form of a ciphertext is the same but for the encoding of points.
LEMMA CanonicalType ==
  ASSUME NEW ct \in Seq(Unit)
  PROVE  /\ Canonical(ct) \in Seq(Unit) /\ Len(Canonical(ct)) = Len(ct)
         /\ \A i \in 1..Len(ct) :
              Canonical(ct)[i] = IF ct[i].kind = "X25519KEM" THEN [ct[i] EXCEPT !.draw = 0]
                                                             ELSE ct[i]
<1> DEFINE at(i) == IF ct[i].kind = "X25519KEM" THEN [ct[i] EXCEPT !.draw = 0] ELSE ct[i]
<1>1. Canonical(ct) = [i \in 1..Len(ct) |-> at(i)]
  BY DEF Canonical
<1>2. \A u \in Unit : [u EXCEPT !.draw = 0] \in Unit
  BY DEF Unit
<1>3. \A i \in 1..Len(ct) : ct[i] \in Unit
  BY ElementOfSeq
<1>4. \A i \in 1..Len(ct) : at(i) \in Unit
  BY <1>2, <1>3, Zenon
<1>5. PICK n \in Nat : n = Len(ct)
  BY LenProperties
<1> HIDE DEF at
<1>6. Canonical(ct) \in Seq(Unit) /\ Len(Canonical(ct)) = n
  BY <1>1, <1>4, <1>5
<1>7. \A i \in 1..Len(ct) : Canonical(ct)[i] = at(i)
  BY <1>1
<1>8. QED
  BY <1>5, <1>6, <1>7, Zenon DEF at

\* A public key is one unit, different keys are different units, and what reads as
\* a key is one of its encodings.
LEMMA X25519Keys ==
  ASSUME NEW k \in Nat
  PROVE  /\ X25519Public(k) \in Seq(Unit) /\ Len(X25519Public(k)) = 1
         /\ X25519Public(k)[1] = [kind |-> "X25519KEM", key |-> k, draw |-> 0, i |-> 1]
         /\ \A ct \in Seq(Unit) : Len(ct) = 1 /\ ct[1].kind = "X25519KEM" /\ ct[1].key = k
              <=> Canonical(ct) = X25519Public(k)
<1> DEFINE s == X25519Public(k)
<1>1. /\ s \in Seq(Unit) /\ Len(s) = 1
      /\ s[1] = [kind |-> "X25519KEM", key |-> k, draw |-> 0, i |-> 1]
  <2>1. Allowed("X25519KEM", 0, 1)
    BY DEF Allowed, Kinds
  <2>2. AreUnits("X25519KEM", k, 0, 1)
    BY <2>1, UnitsType, Zenon
  <2>3. QED
    BY <2>2, Zenon DEF AreUnits, X25519Public
<1> HIDE DEF s
<1>2. ASSUME NEW ct \in Seq(Unit), Len(ct) = 1, ct[1].kind = "X25519KEM", ct[1].key = k
      PROVE  Canonical(ct) = s
  <2>1. ct[1] \in Unit
    <3>1. Len(ct) \in Nat \ {0}
      BY <1>2
    <3>2. QED
      BY <3>1, FirstUnit, Zenon
  <2>2. [ct[1] EXCEPT !.draw = 0] = [kind |-> "X25519KEM", key |-> k, draw |-> 0, i |-> 1]
    BY <1>2, <2>1 DEF Unit
  <2>3. PICK c \in Seq(Unit) : /\ c = Canonical(ct) /\ Len(c) = 1
                               /\ c[1] = [ct[1] EXCEPT !.draw = 0]
    <3>1. /\ Canonical(ct) \in Seq(Unit) /\ Len(Canonical(ct)) = Len(ct)
          /\ \A i \in 1..Len(ct) :
               Canonical(ct)[i] = IF ct[i].kind = "X25519KEM" THEN [ct[i] EXCEPT !.draw = 0]
                                                              ELSE ct[i]
      BY CanonicalType
    <3>2. 1 \in 1..Len(ct)
      BY <1>2
    <3>3. QED
      BY <1>2, <3>1, <3>2, Zenon
  <2>4. \A i \in 1..Len(c) : c[i] = s[i]
    BY <1>1, <2>2, <2>3
  <2>5. QED
    BY <1>1, <2>3, <2>4, SeqEqual
<1>3. ASSUME NEW ct \in Seq(Unit), Canonical(ct) = s
      PROVE  Len(ct) = 1 /\ ct[1].kind = "X25519KEM" /\ ct[1].key = k
  <2>1. /\ Len(s) = Len(ct)
        /\ \A i \in 1..Len(ct) :
             s[i] = IF ct[i].kind = "X25519KEM" THEN [ct[i] EXCEPT !.draw = 0] ELSE ct[i]
    BY <1>3, CanonicalType
  <2>2. 1 \in 1..Len(ct)
    <3>1. Len(ct) = 1
      BY <1>1, <2>1, Zenon
    <3>2. QED
      BY <3>1
  <2>3. PICK u \in Unit : u = ct[1]
    BY <2>2, ElementOfSeq
  <2>4. s[1] = IF u.kind = "X25519KEM" THEN [u EXCEPT !.draw = 0] ELSE u
    BY <2>1, <2>2, <2>3, Zenon
  <2>5. u.kind = "X25519KEM" /\ u.key = k
    BY <1>1, <2>4 DEF Unit
  <2>6. QED
    BY <1>1, <2>1, <2>3, <2>5, Zenon
<1>4. QED
  BY <1>1, <1>2, <1>3, Zenon DEF s

\* A ciphertext of ML-KEM has no other encoding.
LEMMA CanonicalCt ==
  ASSUME NEW ct \in Seq(Unit), NEW k \in Nat, NEW e \in Nat, NEW t \in RealTypes
  PROVE  Canonical(ct) = Units("ct", k, e, Size(t)) <=> ct = Units("ct", k, e, Size(t))
<1>1. PICK n \in Nat \ {0} : n = Size(t)
  BY CtUnits, Zenon
<1>2. PICK s \in Seq(Unit) : s = Units("ct", k, e, n) /\ Len(s) = n
  BY <1>1, CtUnits, Zenon DEF AreUnits
<1>3. \A i \in 1..n : s[i].kind = "ct" /\ s[i] \in Unit
  <2>1. \A i \in 1..n : s[i] = [kind |-> "ct", key |-> k, draw |-> e, i |-> i]
    BY <1>2 DEF Units
  <2>2. ASSUME NEW i \in 1..n PROVE s[i].kind = "ct"
    <3>1. s[i] = [kind |-> "ct", key |-> k, draw |-> e, i |-> i]
      BY <2>1, Zenon
    <3>2. QED
      BY <3>1
  <2>3. QED
    BY <1>2, <2>2, ElementOfSeq
<1>4. /\ Canonical(ct) \in Seq(Unit) /\ Len(Canonical(ct)) = Len(ct)
      /\ \A i \in 1..Len(ct) :
           Canonical(ct)[i] = IF ct[i].kind = "X25519KEM" THEN [ct[i] EXCEPT !.draw = 0]
                                                          ELSE ct[i]
  BY CanonicalType
<1>5. ASSUME ct = s PROVE Canonical(ct) = s
  <2>1. \A i \in 1..Len(ct) : Canonical(ct)[i] = s[i]
    BY <1>2, <1>3, <1>4, <1>5
  <2>2. QED
    BY <1>2, <1>4, <1>5, <2>1, SeqEqual
<1>6. ASSUME Canonical(ct) = s PROVE ct = s
  <2>1. Len(ct) = n
    BY <1>2, <1>4, <1>6
  <2>2. ASSUME NEW i \in 1..Len(ct) PROVE ct[i] = s[i]
    <3>1. PICK u \in Unit : u = ct[i]
      BY ElementOfSeq
    <3>2. s[i] = IF u.kind = "X25519KEM" THEN [u EXCEPT !.draw = 0] ELSE u
      BY <1>4, <1>6, <3>1, Zenon
    <3>3. s[i].kind = "ct"
      BY <1>3, <2>1
    <3>4. u.kind # "X25519KEM"
      BY <3>2, <3>3 DEF Unit
    <3>5. QED
      BY <3>1, <3>2, <3>4
  <2>3. QED
    BY <1>2, <2>1, <2>2, SeqEqual
<1>7. QED
  BY <1>1, <1>2, <1>5, <1>6, Zenon

\* The other side's secret comes out of its public key and the right scalar, and
\* of nothing else, unless the opener has drawn the sender's scalar.
LEMMA X25519Opens ==
  ASSUME NEW k \in Nat, NEW o \in Nat, NEW e \in Nat, NEW ct \in Seq(Unit), o = e => k = e
  PROVE  Yields(X25519(o, ct), DHKinds, DH(e, k),
                Canonical(ct) = X25519Public(e) /\ o = k)
<1> SUFFICES
      /\ X25519(o, ct).end = "ok" =>
           \E x : /\ X25519(o, ct) = Opened({x})
                  /\ x.kind \in DHKinds
                  /\ {x} = DH(e, k) <=> Canonical(ct) = X25519Public(e) /\ o = k
      /\ Canonical(ct) = X25519Public(e) => X25519(o, ct).end = "ok"
  BY Zenon DEF Yields
<1>1. /\ X25519Public(e) \in Seq(Unit) /\ Len(X25519Public(e)) = 1
      /\ X25519Public(e)[1] = [kind |-> "X25519KEM", key |-> e, draw |-> 0, i |-> 1]
      /\ Len(ct) = 1 /\ ct[1].kind = "X25519KEM" /\ ct[1].key = e <=> Canonical(ct) = X25519Public(e)
  BY X25519Keys
<1>2. Error.end = "error" /\ \A ss : Opened(ss).end = "ok"
  BY DEF Error, Opened
<1>3. CASE Len(ct) = 1 /\ ct[1].kind = "X25519KEM"
  <2>1. X25519(o, ct) = Opened(DH(o, ct[1].key))
    BY <1>3, X25519Ends
  <2>2. PICK q \in Nat : q = ct[1].key
    <3>1. Len(ct) \in Nat \ {0}
      BY <1>3
    <3>2. ct[1] \in Unit
      BY <3>1, FirstUnit, Zenon
    <3>3. QED
      BY <3>2 DEF Unit
  <2>3. PICK x : DH(o, q) = {x} /\ x.kind = "dh"
    BY DHIsOne
  <2>4. DH(o, q) = DH(e, k) <=> (o = e /\ q = k) \/ (o = k /\ q = e)
    BY DHAgrees
  <2>5. {x} = DH(e, k) <=> Canonical(ct) = X25519Public(e) /\ o = k
    <3>1. Canonical(ct) = X25519Public(e) <=> q = e
      BY <1>1, <1>3, <2>2
    <3>2. {x} = DH(e, k) <=> o = k /\ q = e
      BY <2>3, <2>4, Zenon
    <3>3. QED
      BY <3>1, <3>2
  <2>6. X25519(o, ct) = Opened({x})
    BY <2>1, <2>2, <2>3, Zenon
  <2>7. QED
    BY <1>2, <2>3, <2>5, <2>6 DEF DHKinds
<1>4. CASE Len(ct) = 1 /\ ct[1].kind \notin {"zero", "X25519KEM"}
  <2>1. X25519(o, ct) = Opened(Term("dh with nobody", o, ct[1].draw))
    BY <1>4, X25519Ends
  <2>2. PICK x : Term("dh with nobody", o, ct[1].draw) = {x} /\ x.kind = "dh with nobody"
    BY TermIsOne, Zenon
  <2>3. {x} # DH(e, k)
    <3>1. PICK y : DH(e, k) = {y} /\ y.kind = "dh"
      BY DHIsOne, Zenon
    <3>2. x # y
      BY <2>2, <3>1
    <3>3. QED
      BY <3>1, <3>2
  <2>4. Canonical(ct) # X25519Public(e)
    BY <1>1, <1>4
  <2>5. X25519(o, ct) = Opened({x})
    BY <2>1, <2>2
  <2>6. QED
    BY <2>2, <2>3, <2>4, <2>5 DEF DHKinds
<1>5. CASE Len(ct) # 1 \/ (Len(ct) = 1 /\ ct[1].kind = "zero")
  <2>1. X25519(o, ct) = Error
    BY <1>5, X25519Ends
  <2>2. Canonical(ct) # X25519Public(e)
    BY <1>1, <1>5
  <2>3. X25519(o, ct).end = "error"
    BY <1>2, <2>1
  <2>4. QED
    BY <2>2, <2>3
<1>6. ct[1].kind = "X25519KEM" => ct[1].kind # "zero"
  OBVIOUS
<1>7. QED
  BY <1>3, <1>4, <1>5, <1>6, Zenon

-----------------------------------------------------------------------------
(* ML-KEM *)

\* The sender's secret comes out of its ciphertext and the right key, and of
\* nothing else.
LEMMA MLKEMOpens ==
  ASSUME NEW t \in RealTypes, NEW k \in Nat, NEW o \in Nat, NEW e \in Nat,
         NEW ct \in Seq(Unit)
  PROVE  Yields(MLKEMOpen(t, o, ct), KEMKinds, Term(t, k, e),
                ct = Units("ct", k, e, Size(t)) /\ o = k)
<1> SUFFICES
      /\ MLKEMOpen(t, o, ct).end = "ok" =>
           \E x : /\ MLKEMOpen(t, o, ct) = Opened({x})
                  /\ x.kind \in KEMKinds
                  /\ {x} = Term(t, k, e) <=> ct = Units("ct", k, e, Size(t)) /\ o = k
      /\ ct = Units("ct", k, e, Size(t)) => MLKEMOpen(t, o, ct).end = "ok"
  BY Zenon DEF Yields
<1>1. PICK n \in Nat \ {0} : n = Size(t)
  BY Sizes DEF RealTypes
<1>2. \A a, b \in Nat : LET u == Units("ct", a, b, n)
                        IN  /\ u \in Seq(Unit) /\ Len(u) = n
                            /\ u[1] = [kind |-> "ct", key |-> a, draw |-> b, i |-> 1]
  BY <1>1, CtUnits, Zenon DEF AreUnits
<1>3. Error.end = "error" /\ \A ss : Opened(ss).end = "ok"
  BY DEF Error, Opened
<1>4. t # "rejected"
  BY DEF RealTypes
<1> DEFINE mine == \E j \in {ct[i].draw : i \in 1..Len(ct)} : ct = Units("ct", o, j, n)
<1>5. MLKEMOpen(t, o, ct) =
        IF Len(ct) # n THEN Error
        ELSE IF mine THEN Opened(Term(t, o, ct[1].draw))
        ELSE Opened(Term("rejected", o, 0))
  BY <1>1, Zenon DEF MLKEMOpen
<1>6. mine => \E j \in Nat : ct = Units("ct", o, j, n)
  <2>1. \A i \in 1..Len(ct) : ct[i].draw \in Nat
    BY ElementOfSeq DEF Unit
  <2>2. QED
    BY <2>1, Zenon
<1>7. ASSUME NEW j \in Nat, ct = Units("ct", o, j, n) PROVE mine
  <2>1. Len(ct) = n /\ ct[1].draw = j
    <3>1. Len(ct) = n /\ ct[1] = [kind |-> "ct", key |-> o, draw |-> j, i |-> 1]
      BY <1>2, <1>7, Zenon
    <3>2. QED
      BY <3>1
  <2>2. 1 \in 1..Len(ct)
    BY <1>1, <2>1
  <2>3. j \in {ct[i].draw : i \in 1..Len(ct)}
    BY <2>1, <2>2
  <2>4. QED
    BY <1>7, <2>3, Zenon
<1> HIDE DEF mine
<1>8. CASE Len(ct) # n
  <2>1. MLKEMOpen(t, o, ct) = Error
    BY <1>5, <1>8
  <2>2. ct # Units("ct", k, e, n)
    BY <1>2, <1>8
  <2>3. MLKEMOpen(t, o, ct).end = "error"
    BY <1>3, <2>1
  <2>4. QED
    BY <1>1, <2>2, <2>3
<1>9. CASE Len(ct) = n /\ mine
  <2>1. PICK j \in Nat : ct = Units("ct", o, j, n)
    BY <1>6, <1>9
  <2>2. ct[1] = [kind |-> "ct", key |-> o, draw |-> j, i |-> 1]
    BY <1>2, <2>1
  <2>3. MLKEMOpen(t, o, ct) = Opened(Term(t, o, j))
    BY <1>5, <1>9, <2>2
  <2>4. PICK x : Term(t, o, j) = {x} /\ x.kind = t
    BY TermIsOne, Zenon
  <2>5. {x} = Term(t, k, e) <=> o = k /\ j = e
    <3>1. Term(t, o, j) = Term(t, k, e) <=> t = t /\ o = k /\ j = e
      BY TermsDiffer
    <3>2. QED
      BY <2>4, <3>1, Zenon
  <2>6. ct = Units("ct", k, e, n) <=> o = k /\ j = e
    <3>1. ASSUME ct = Units("ct", k, e, n) PROVE o = k /\ j = e
      <4>1. ct[1] = [kind |-> "ct", key |-> k, draw |-> e, i |-> 1]
        BY <1>2, <3>1
      <4>2. QED
        BY <2>2, <4>1
    <3>2. QED
      BY <2>1, <3>1
  <2>7. MLKEMOpen(t, o, ct) = Opened({x})
    BY <2>3, <2>4
  <2>8. QED
    BY <1>1, <1>3, <2>4, <2>5, <2>6, <2>7 DEF KEMKinds
<1>10. CASE Len(ct) = n /\ ~mine
  <2>1. MLKEMOpen(t, o, ct) = Opened(Term("rejected", o, 0))
    BY <1>5, <1>10
  <2>2. PICK x : Term("rejected", o, 0) = {x} /\ x.kind = "rejected"
    BY TermIsOne, Zenon
  <2>3. {x} # Term(t, k, e)
    <3>1. PICK y : Term(t, k, e) = {y} /\ y.kind = t
      BY TermIsOne, Zenon
    <3>2. x # y
      BY <1>4, <2>2, <3>1
    <3>3. QED
      BY <3>1, <3>2
  <2>4. ~(ct = Units("ct", k, e, n) /\ o = k)
    BY <1>7, <1>10
  <2>5. MLKEMOpen(t, o, ct) = Opened({x})
    BY <2>1, <2>2
  <2>6. QED
    BY <1>1, <1>3, <2>2, <2>3, <2>4, <2>5 DEF KEMKinds
<1>11. QED
  BY <1>8, <1>9, <1>10

-----------------------------------------------------------------------------
(* Key pairs *)

\* The names of the types are different names.
LEMMA TypesDiffer ==
  /\ "X25519KEM" # "nil" /\ "X25519KEM" \notin StubTypes \cup RealTypes
  /\ "nil" \notin StubTypes \cup RealTypes
  /\ \A t \in StubTypes : t \notin RealTypes
  /\ \A t \in StubTypes \cup RealTypes : t # "nil" /\ t # "X25519KEM"
  /\ \A t \in StubTypes \cup RealTypes \cup {"nil", "X25519KEM"} :
       t # "HybridKEM" /\ t # "HybridMLKEM"
  /\ "HybridKEM" # "HybridMLKEM" /\ "MLKEM768Type" \in StubTypes
  /\ "RealMLKEM768" \in RealTypes /\ "RealMLKEM1024" \in RealTypes
  BY DEF StubTypes, RealTypes

RealPrivate(t, d) == [PrivateKey(t, d) EXCEPT !.type = "mlkemPrivateKey"]

\* What the parts make of a draw.
LEMMA PartMakes ==
  ASSUME NEW d
  PROVE  /\ PartGenerate("nil", d) = Panic
         /\ PartGenerate("X25519KEM", d) =
              IF d = 0 THEN Error ELSE Ok(PublicKey(X25519Public(d)), PrivateKey("X25519KEM", d))
         /\ PartGenerate("MLKEM768Type", d) =
              Ok(PublicKey(Noise(d, Size("MLKEM768Type"))), PrivateKey("MLKEM768Type", d))
         /\ \A t \in RealTypes : PartGenerate(t, d) =
              IF d = 0 THEN Error ELSE Ok(MLKEMPublic(t, d), RealPrivate(t, d))
<1>1. PartGenerate("nil", d) = Panic
  BY TypesDiffer, Zenon DEF PartGenerate
<1>2. PartGenerate("X25519KEM", d) = X25519Generate(d)
  BY TypesDiffer, Zenon DEF PartGenerate
<1>3. PartGenerate("MLKEM768Type", d) = StubGenerate("MLKEM768Type", d)
  BY TypesDiffer, Zenon DEF PartGenerate
<1>4. ASSUME NEW t \in RealTypes PROVE PartGenerate(t, d) = RealGenerate(t, d)
  BY TypesDiffer, Zenon DEF PartGenerate
<1>5. QED
  BY <1>1, <1>2, <1>3, <1>4, Zenon
     DEF X25519Generate, StubGenerate, RealGenerate, RealPrivate

\* What a part seals.
LEMMA PartSeals ==
  ASSUME NEW pk, NEW d
  PROVE  /\ PartEncapsulate("X25519KEM", pk, d) = X25519Encapsulate(pk, d)
         /\ \A t \in RealTypes : PartEncapsulate(t, pk, d) = RealEncapsulate(pk, d)
<1>1. PartEncapsulate("X25519KEM", pk, d) = X25519Encapsulate(pk, d)
  BY TypesDiffer, Zenon DEF PartEncapsulate
<1>2. ASSUME NEW t \in RealTypes PROVE PartEncapsulate(t, pk, d) = RealEncapsulate(pk, d)
  BY TypesDiffer, Zenon DEF PartEncapsulate
<1>3. QED
  BY <1>1, <1>2

\* What a part opens.
LEMMA PartOpens ==
  ASSUME NEW sk, NEW ct, NEW d
  PROVE  /\ PartDecapsulate("X25519KEM", sk, ct, d) = X25519(sk.draw, ct)
         /\ \A t \in RealTypes : PartDecapsulate(t, sk, ct, d) = RealDecapsulate(sk, ct)
<1>1. PartDecapsulate("X25519KEM", sk, ct, d) = X25519(sk.draw, ct)
  BY TypesDiffer, Zenon DEF PartDecapsulate, X25519Decapsulate
<1>2. ASSUME NEW t \in RealTypes PROVE PartDecapsulate(t, sk, ct, d) = RealDecapsulate(sk, ct)
  BY TypesDiffer, Zenon DEF PartDecapsulate
<1>3. QED
  BY <1>1, <1>2

\* The interface calls the KEM's own operations.
LEMMA Dispatch ==
  ASSUME NEW d, NEW k, NEW ct
  PROVE  /\ \A t \in StubTypes \cup RealTypes \cup {"nil", "X25519KEM"} :
              /\ GenerateKeyPair(Simple(t), d) = PartGenerate(t, d[1])
              /\ Encapsulate(Simple(t), k, d) = PartEncapsulate(t, k, d[1])
              /\ Decapsulate(Simple(t), k, ct, d) = PartDecapsulate(t, k, ct, d[1])
         /\ \A a, b : GenerateKeyPair(NewHybridKEM(a, b), d)
                        = HybridGenerate(NewHybridKEM(a, b), d)
         /\ GenerateKeyPair(NewHybridMLKEM, d) = HybridMLKEMGenerate(NewHybridMLKEM, d)
         /\ Encapsulate(NewHybridMLKEM, k, d) = HybridMLKEMEncapsulate(NewHybridMLKEM, k, d)
         /\ Decapsulate(NewHybridMLKEM, k, ct, d)
              = HybridMLKEMDecapsulate(NewHybridMLKEM, k, ct, d)
<1>1. /\ \A t : Simple(t).type = t
      /\ \A a, b : NewHybridKEM(a, b).type = "HybridKEM"
      /\ NewHybridMLKEM.type = "HybridMLKEM"
  BY DEF Simple, NewHybridKEM, NewHybridMLKEM
<1>2. ASSUME NEW t \in StubTypes \cup RealTypes \cup {"nil", "X25519KEM"}
      PROVE  /\ GenerateKeyPair(Simple(t), d) = PartGenerate(t, d[1])
             /\ Encapsulate(Simple(t), k, d) = PartEncapsulate(t, k, d[1])
             /\ Decapsulate(Simple(t), k, ct, d) = PartDecapsulate(t, k, ct, d[1])
  <2>1. Simple(t).type = t /\ t # "HybridKEM" /\ t # "HybridMLKEM"
    BY <1>1, TypesDiffer, Zenon
  <2>2. QED
    BY <2>1, Zenon DEF GenerateKeyPair, Encapsulate, Decapsulate
<1>3. \A a, b : GenerateKeyPair(NewHybridKEM(a, b), d) = HybridGenerate(NewHybridKEM(a, b), d)
  BY <1>1, TypesDiffer, Zenon DEF GenerateKeyPair
<1>4. /\ GenerateKeyPair(NewHybridMLKEM, d) = HybridMLKEMGenerate(NewHybridMLKEM, d)
      /\ Encapsulate(NewHybridMLKEM, k, d) = HybridMLKEMEncapsulate(NewHybridMLKEM, k, d)
      /\ Decapsulate(NewHybridMLKEM, k, ct, d)
           = HybridMLKEMDecapsulate(NewHybridMLKEM, k, ct, d)
  BY <1>1, TypesDiffer, Zenon DEF GenerateKeyPair, Encapsulate, Decapsulate
<1>5. QED
  BY <1>2, <1>3, <1>4, Zenon

\* The bytes of keys and of ciphertexts, and how many units they are.
LEMMA KeyBytes ==
  /\ \A d \in Nat : PublicKey(X25519Public(d)).bytes = X25519Public(d)
  /\ \A t \in RealTypes, d \in Nat :
       LET b == MLKEMPublic(t, d).bytes
       IN  b \in Seq(Unit) /\ Len(b) = Size(t) /\ b[1].kind = t /\ b[1].key = d
  /\ \A d \in Nat, n \in Nat \ {0} : Noise(d, n) \in Seq(Unit) /\ Len(Noise(d, n)) = n
<1>1. \A d \in Nat : PublicKey(X25519Public(d)).bytes = X25519Public(d)
  BY DEF PublicKey
<1>2. PICK z \in Nat : z = 0
  OBVIOUS
<1>3. ASSUME NEW t \in RealTypes, NEW d \in Nat
      PROVE  LET b == MLKEMPublic(t, d).bytes
             IN  b \in Seq(Unit) /\ Len(b) = Size(t) /\ b[1].kind = t /\ b[1].key = d
  <2>1. t \in Kinds /\ t # "X25519KEM"
    BY DEF Kinds, RealTypes
  <2>2. PICK n \in Nat \ {0} : n = Size(t)
    BY Sizes DEF RealTypes
  <2>3. /\ Units(t, d, z, n) \in Seq(Unit) /\ Len(Units(t, d, z, n)) = n
        /\ Units(t, d, z, n)[1] = [kind |-> t, key |-> d, draw |-> z, i |-> 1]
    <3>1. Allowed(t, z, n)
      BY <2>1 DEF Allowed
    <3>2. AreUnits(t, d, z, n)
      BY <3>1, UnitsType, Zenon
    <3>3. QED
      BY <3>2, Zenon DEF AreUnits
  <2>4. PICK b : b = Units(t, d, z, n)
    OBVIOUS
  <2>5. MLKEMPublic(t, d).bytes = b
    BY <1>2, <2>2, <2>4 DEF MLKEMPublic
  <2>6. b \in Seq(Unit) /\ Len(b) = Size(t) /\ b[1].kind = t /\ b[1].key = d
    BY <2>2, <2>3, <2>4
  <2>7. QED
    BY <2>5, <2>6, Zenon
<1>4. ASSUME NEW d \in Nat, NEW n \in Nat \ {0}
      PROVE  Noise(d, n) \in Seq(Unit) /\ Len(Noise(d, n)) = n
  <2>1. Allowed("zero", 0, n) /\ Allowed("noise", d, n)
    BY DEF Allowed, Kinds
  <2>2. AreUnits("zero", 0, 0, n)
    BY <1>2, <2>1, UnitsType, Zenon
  <2>3. AreUnits("noise", 0, d, n)
    BY <1>2, <2>1, UnitsType, Zenon
  <2>4. QED
    BY <2>2, <2>3, Zenon DEF Noise, Zeroes, AreUnits
<1>5. QED
  BY <1>1, <1>3, <1>4, Zenon

\* Both parts of a hybrid must be there and have worked.
LEMMA BothOk ==
  ASSUME NEW c, NEW q, NEW combined, Both(c, q, combined).end = "ok"
  PROVE  c.end = "ok" /\ q.end = "ok" /\ Both(c, q, combined) = combined
  BY DEF Both

\* The ends of the results.
LEMMA Ends ==
  /\ Error.end # "ok" /\ Panic.end # "ok" /\ Error.end = "error"
  /\ \A pk, sk : Ok(pk, sk).end = "ok" /\ Ok(pk, sk).pk = pk /\ Ok(pk, sk).sk = sk
  /\ \A ct, ss : Sealed(ct, ss).end = "ok" /\ Sealed(ct, ss).ct = ct /\ Sealed(ct, ss).ss = ss
  /\ \A ss : Opened(ss).end = "ok" /\ Opened(ss).ss = ss
  BY DEF Error, Panic, Ok, Sealed, Opened

\* A key pair of HybridKEM has a plain public key of three units.
LEMMA HybridKEMMakes ==
  ASSUME NEW d \in Nat \X Nat, NEW a, NEW b,
         <<a, b>> \in {<<"nil", "nil">>, <<"X25519KEM", "MLKEM768Type">>,
                       <<"X25519KEM", "RealMLKEM768">>},
         HybridGenerate(NewHybridKEM(a, b), d).end = "ok"
  PROVE  LET pk == HybridGenerate(NewHybridKEM(a, b), d).pk
         IN  pk.type = "publicKey" /\ Len(pk.bytes) = 3
<1> DEFINE c == PartGenerate(a, d[1])
           q == PartGenerate(b, d[2])
           all == Ok(PublicKey(c.pk.bytes \o q.pk.bytes), PrivateKey("HybridKEM", 0))
<1>1. HybridGenerate(NewHybridKEM(a, b), d) = Both(c, q, all)
  <2>1. NewHybridKEM(a, b).classical = a /\ NewHybridKEM(a, b).pq = b
    BY DEF NewHybridKEM
  <2>2. QED
    BY <2>1, Zenon DEF HybridGenerate
<1>2. c.end = "ok" /\ q.end = "ok" /\ HybridGenerate(NewHybridKEM(a, b), d) = all
  <2> HIDE DEF c, q, all
  <2>1. QED
    BY <1>1, BothOk
<1>3. d[1] \in Nat /\ d[2] \in Nat
  OBVIOUS
<1>4. a = "X25519KEM" /\ b \in {"MLKEM768Type", "RealMLKEM768"}
  <2>1. PartGenerate("nil", d[1]).end # "ok"
    BY PartMakes, Ends, Zenon
  <2>2. a # "nil"
    BY <1>2, <2>1
  <2>3. QED
    BY <2>2
<1>5. c.pk.bytes = X25519Public(d[1])
  <2>1. c = Ok(PublicKey(X25519Public(d[1])), PrivateKey("X25519KEM", d[1]))
    BY <1>2, <1>4, PartMakes, Ends, Zenon
  <2> HIDE DEF c
  <2>2. c.pk = PublicKey(X25519Public(d[1]))
    BY <2>1, Ends, Zenon
  <2>3. QED
    BY <2>2 DEF PublicKey
<1>6. q.pk.bytes \in Seq(Unit) /\ Len(q.pk.bytes) = 2
  <2>1. CASE b = "MLKEM768Type"
    <3>1. PICK n \in Nat \ {0} : n = Size("MLKEM768Type") /\ n = 2
      BY Sizes
    <3>2. q = Ok(PublicKey(Noise(d[2], n)), PrivateKey("MLKEM768Type", d[2]))
      BY <2>1, <3>1, PartMakes, Zenon
    <3>3. q.pk.bytes = Noise(d[2], n)
      <4> HIDE DEF q
      <4>1. q.pk = PublicKey(Noise(d[2], n))
        BY <3>2, Ends, Zenon
      <4>2. QED
        BY <4>1 DEF PublicKey
    <3>4. Noise(d[2], n) \in Seq(Unit) /\ Len(Noise(d[2], n)) = n
      BY <1>3, KeyBytes
    <3> HIDE DEF q
    <3>5. QED
      BY <3>1, <3>3, <3>4, Zenon
  <2>2. CASE b = "RealMLKEM768"
    <3>1. b \in RealTypes /\ Size(b) = 2
      BY <2>2, Sizes DEF RealTypes
    <3>2. q = Ok(MLKEMPublic(b, d[2]), RealPrivate(b, d[2]))
      BY <1>2, <3>1, PartMakes, Ends, Zenon
    <3>3. q.pk = MLKEMPublic(b, d[2])
      <4> HIDE DEF q
      <4>1. QED
        BY <3>2, Ends, Zenon
    <3> HIDE DEF q
    <3>4. PICK y \in Nat : y = d[2]
      BY <1>3
    <3>5. MLKEMPublic(b, y).bytes \in Seq(Unit) /\ Len(MLKEMPublic(b, y).bytes) = Size(b)
      BY <3>1, KeyBytes, Zenon
    <3>6. QED
      BY <3>1, <3>3, <3>4, <3>5, Zenon
  <2>3. QED
    BY <1>4, <2>1, <2>2
<1>7. PICK u, v \in Seq(Unit) : u = c.pk.bytes /\ v = q.pk.bytes /\ Len(u) = 1 /\ Len(v) = 2
  <2> HIDE DEF c, q
  <2>1. X25519Public(d[1]) \in Seq(Unit) /\ Len(X25519Public(d[1])) = 1
    BY <1>3, X25519Keys
  <2>2. QED
    BY <1>5, <1>6, <2>1, Zenon
<1>8. all.pk = PublicKey(u \o v)
  <2> HIDE DEF c, q
  <2>1. QED
    BY <1>7, Ends, Zenon
<1>9. PublicKey(u \o v).type = "publicKey" /\ Len(PublicKey(u \o v).bytes) = 3
  <2>1. Len(u \o v) = 3
    <3>1. Len(u \o v) = Len(u) + Len(v)
      BY ConcatProperties
    <3>2. QED
      BY <1>7, <3>1
  <2>2. PICK w : w = u \o v
    OBVIOUS
  <2>3. PublicKey(w).type = "publicKey" /\ PublicKey(w).bytes = w
    BY DEF PublicKey
  <2>4. QED
    BY <2>1, <2>2, <2>3, Zenon
<1>10. QED
  <2> HIDE DEF all
  <2>1. QED
    BY <1>2, <1>8, <1>9, Zenon

\* A key pair of X25519KEM, of a real ML-KEM and of HybridMLKEM.
X25519Pair(a) == Ok(PublicKey(X25519Public(a)), PrivateKey("X25519KEM", a))
RealPair(t, a) == Ok(MLKEMPublic(t, a), RealPrivate(t, a))
HybridPrivate(a, b) ==
  Hybrid("hybridPrivateKey", PrivateKey("X25519KEM", a), RealPrivate("RealMLKEM768", b))

\* A key pair of HybridMLKEM keeps both pairs.
LEMMA HybridMLKEMMakes ==
  ASSUME NEW d \in Nat \X Nat, GenerateKeyPair(NewHybridMLKEM, d).end = "ok"
  PROVE  LET made == GenerateKeyPair(NewHybridMLKEM, d)
         IN  /\ made.pk.type = "hybridPublicKey" /\ Len(made.pk.bytes) = 3
             /\ made.pk.parts[1] = PublicKey(X25519Public(d[1]))
             /\ made.pk.parts[2] = MLKEMPublic("RealMLKEM768", d[2])
             /\ made.sk = HybridPrivate(d[1], d[2])
             /\ d[1] # 0
<1> DEFINE c == PartGenerate("X25519KEM", d[1])
           q == PartGenerate("RealMLKEM768", d[2])
           pub == [Hybrid("hybridPublicKey", c.pk, q.pk) EXCEPT !.bytes = @ \o q.pk.bytes]
           priv == Hybrid("hybridPrivateKey", c.sk, q.sk)
           made == GenerateKeyPair(NewHybridMLKEM, d)
<1>0. made.end = "ok"
  OBVIOUS
<1>1. made = Both(c, q, Ok(pub, priv))
  <2>1. NewHybridMLKEM.classical = "X25519KEM" /\ NewHybridMLKEM.pq = "RealMLKEM768"
    BY DEF NewHybridMLKEM
  <2>2. made = HybridMLKEMGenerate(NewHybridMLKEM, d)
    BY Dispatch, Zenon
  <2>3. QED
    BY <2>1, <2>2, Zenon DEF HybridMLKEMGenerate
<1>2. c.end = "ok" /\ q.end = "ok" /\ made = Ok(pub, priv)
  <2> HIDE DEF c, q, pub, priv, made
  <2>1. QED
    BY <1>0, <1>1, BothOk
<1>3. d[1] \in Nat /\ d[2] \in Nat
  OBVIOUS
<1>4. c = X25519Pair(d[1])
  BY <1>2, PartMakes, Ends, Zenon DEF X25519Pair
<1>5. q = RealPair("RealMLKEM768", d[2])
  BY <1>2, TypesDiffer, PartMakes, Ends, Zenon DEF RealPair
<1>6. made.pk = pub /\ made.sk = priv
  <2> HIDE DEF made, pub, priv
  <2>1. QED
    BY <1>2 DEF Ok
<1> HIDE DEF c, q, made
<1>7. PICK a, b : a = PublicKey(X25519Public(d[1])) /\ b = MLKEMPublic("RealMLKEM768", d[2])
  OBVIOUS
<1>8. c.pk = a /\ q.pk = b
  BY <1>4, <1>5, <1>7, Ends, Zenon DEF X25519Pair, RealPair
<1>9. PICK u, v \in Seq(Unit) : u = a.bytes /\ v = b.bytes /\ Len(u) = 1 /\ Len(v) = 2
  <2>1. PICK x, y \in Nat : x = d[1] /\ y = d[2]
    BY <1>3, Zenon
  <2>2. X25519Public(x) \in Seq(Unit) /\ Len(X25519Public(x)) = 1
    BY X25519Keys
  <2>3. PublicKey(X25519Public(x)).bytes = X25519Public(x)
    BY DEF PublicKey
  <2>4. /\ MLKEMPublic("RealMLKEM768", y).bytes \in Seq(Unit)
        /\ Len(MLKEMPublic("RealMLKEM768", y).bytes) = Size("RealMLKEM768")
    BY TypesDiffer, KeyBytes, Zenon
  <2>5. QED
    BY <1>7, <2>1, <2>2, <2>3, <2>4, Sizes, Zenon
<1>10. pub.type = "hybridPublicKey" /\ pub.bytes = u \o v /\ pub.parts = <<a, b>>
  <2>1. /\ DOMAIN a = {"type", "bytes", "parts"}
    BY <1>7 DEF PublicKey
  <2>2. QED
    BY <1>8, <1>9, <2>1 DEF Hybrid
<1>11. Len(u \o v) = 3
  <2>1. Len(u \o v) = Len(u) + Len(v)
    BY ConcatProperties
  <2>2. QED
    BY <1>9, <2>1
<1>12. priv = HybridPrivate(d[1], d[2])
  <2>1. c.sk = PrivateKey("X25519KEM", d[1])
    BY <1>4 DEF X25519Pair, Ok
  <2>2. q.sk = RealPrivate("RealMLKEM768", d[2])
    BY <1>5 DEF RealPair, Ok
  <2>3. QED
    BY <2>1, <2>2, Zenon DEF HybridPrivate
<1> HIDE DEF pub, priv
<1>13. pub.parts[1] = a /\ pub.parts[2] = b
  BY <1>10
<1>14. QED
  <2>1. d[1] # 0
    BY <1>2, PartMakes, Ends, Zenon DEF c
  <2>2. QED
    BY <1>6, <1>7, <1>10, <1>11, <1>12, <1>13, <2>1, Zenon DEF made

\* Which KEM made a key shows in its type and its length.
LEMMA WhoMadeIt ==
  ASSUME NEW maker \in Implementations, NEW d \in Nat \X Nat, GenerateKeyPair(maker, d).end = "ok"
  PROVE  LET made == GenerateKeyPair(maker, d)
         IN  /\ Len(made.pk.bytes) = 1 =>
                  maker = Simple("X25519KEM") /\ made = X25519Pair(d[1]) /\ d[1] # 0
             /\ made.pk.type = "mlkemPublicKey" =>
                  \E t \in RealTypes : maker = Simple(t) /\ made = RealPair(t, d[1])
             /\ made.pk.type = "hybridPublicKey" => maker = NewHybridMLKEM
<1> DEFINE made == GenerateKeyPair(maker, d)
           Goal == /\ Len(made.pk.bytes) = 1 =>
                        maker = Simple("X25519KEM") /\ made = X25519Pair(d[1]) /\ d[1] # 0
                   /\ made.pk.type = "mlkemPublicKey" =>
                        \E t \in RealTypes : maker = Simple(t) /\ made = RealPair(t, d[1])
                   /\ made.pk.type = "hybridPublicKey" => maker = NewHybridMLKEM
<1> SUFFICES Goal
  OBVIOUS
<1>1. PICK x \in Nat : x = d[1]
  OBVIOUS
<1>2. /\ "publicKey" # "mlkemPublicKey" /\ "publicKey" # "hybridPublicKey"
      /\ "mlkemPublicKey" # "hybridPublicKey"
  OBVIOUS
<1>3. CASE maker = Simple("X25519KEM")
  <2>1. made = PartGenerate("X25519KEM", x)
    BY <1>1, <1>3, Dispatch, TypesDiffer, Zenon
  <2>2. made = X25519Pair(d[1]) /\ d[1] # 0
    BY <1>1, <2>1, PartMakes, Ends, Zenon DEF X25519Pair
  <2> HIDE DEF made
  <2>3. made.pk = PublicKey(X25519Public(d[1]))
    BY <2>2, Ends, Zenon DEF X25519Pair
  <2>4. made.pk.type = "publicKey"
    BY <2>3 DEF PublicKey
  <2>5. QED
    BY <1>2, <1>3, <2>2, <2>4, Zenon
<1>4. ASSUME NEW t \in RealTypes, maker = Simple(t) PROVE Goal
  <2>1. made = PartGenerate(t, x)
    BY <1>1, <1>4, Dispatch, TypesDiffer, Zenon
  <2>2. made = RealPair(t, d[1])
    BY <1>1, <2>1, PartMakes, Ends, Zenon DEF RealPair
  <2> HIDE DEF made
  <2>3. made.pk = MLKEMPublic(t, x)
    BY <1>1, <2>2, Ends, Zenon DEF RealPair
  <2>4. made.pk.type = "mlkemPublicKey"
    BY <2>3 DEF MLKEMPublic
  <2>5. Len(made.pk.bytes) = Size(t)
    <3>1. Len(MLKEMPublic(t, x).bytes) = Size(t)
      BY KeyBytes, Zenon
    <3>2. QED
      BY <2>3, <3>1, Zenon
  <2>6. Size(t) # 1
    BY Sizes DEF RealTypes
  <2>7. QED
    BY <1>2, <1>4, <2>2, <2>4, <2>5, <2>6, Zenon
<1>5. CASE maker = NewHybridMLKEM
  <2>1. made.pk.type = "hybridPublicKey" /\ Len(made.pk.bytes) = 3
    BY <1>5, HybridMLKEMMakes, Zenon
  <2> HIDE DEF made
  <2>2. Len(made.pk.bytes) # 1
    BY <2>1
  <2>3. QED
    BY <1>2, <1>5, <2>1, <2>2, Zenon
<1>6. CASE maker = Simple("MLKEM768Type")
  <2>1. PICK n \in Nat \ {0} : n = Size("MLKEM768Type") /\ n # 1
    BY Sizes
  <2>2. made = PartGenerate("MLKEM768Type", x)
    BY <1>1, <1>6, Dispatch, TypesDiffer, Zenon
  <2>3. made = Ok(PublicKey(Noise(x, n)), PrivateKey("MLKEM768Type", x))
    BY <2>1, <2>2, PartMakes, Zenon
  <2> HIDE DEF made
  <2>4. made.pk = PublicKey(Noise(x, n))
    BY <2>3, Ends, Zenon
  <2>5. made.pk.type = "publicKey" /\ made.pk.bytes = Noise(x, n)
    BY <2>4 DEF PublicKey
  <2>6. Len(Noise(x, n)) = n
    BY KeyBytes, Zenon
  <2>7. QED
    BY <1>2, <2>1, <2>5, <2>6, Zenon
<1>7. ASSUME NEW a, NEW b, maker = NewHybridKEM(a, b),
             <<a, b>> \in {<<"nil", "nil">>, <<"X25519KEM", "MLKEM768Type">>,
                           <<"X25519KEM", "RealMLKEM768">>}
      PROVE  Goal
  <2>1. made = HybridGenerate(NewHybridKEM(a, b), d)
    BY <1>7, Dispatch, Zenon
  <2>2. made.pk.type = "publicKey" /\ Len(made.pk.bytes) = 3
    <3>1. HybridGenerate(NewHybridKEM(a, b), d).end = "ok"
      BY <2>1
    <3>2. LET pk == HybridGenerate(NewHybridKEM(a, b), d).pk
          IN  pk.type = "publicKey" /\ Len(pk.bytes) = 3
      BY <1>7, <3>1, HybridKEMMakes
    <3>3. QED
      BY <2>1, <3>2, Zenon
  <2> HIDE DEF made
  <2>3. Len(made.pk.bytes) # 1
    BY <2>2
  <2>4. QED
    BY <1>2, <2>2, <2>3, Zenon
<1>8. \/ maker = Simple("X25519KEM") \/ maker = NewHybridMLKEM
      \/ \E t \in RealTypes : maker = Simple(t)
      \/ maker = Simple("MLKEM768Type")
      \/ \E a, b : /\ maker = NewHybridKEM(a, b)
                   /\ <<a, b>> \in {<<"nil", "nil">>, <<"X25519KEM", "MLKEM768Type">>,
                                    <<"X25519KEM", "RealMLKEM768">>}
  BY TypesDiffer, Zenon DEF Implementations, Working
<1>9. QED
  <2> HIDE DEF Goal
  <2>1. QED
    BY <1>3, <1>4, <1>5, <1>6, <1>7, <1>8, Zenon

\* Private keys are the same when their draws are.
LEMMA PrivateKeysDiffer ==
  ASSUME NEW a, NEW b, NEW c, NEW d, NEW t
  PROVE  /\ PrivateKey("X25519KEM", a) = PrivateKey("X25519KEM", b) <=> a = b
         /\ RealPrivate(t, a) = RealPrivate(t, b) <=> a = b
         /\ HybridPrivate(a, c) = HybridPrivate(b, d) <=> a = b /\ c = d
<1>1. \A u, x, y : PrivateKey(u, x) = PrivateKey(u, y) <=> x = y
  BY DEF PrivateKey
<1>2. \A u, x, y : RealPrivate(u, x) = RealPrivate(u, y) <=> x = y
  BY DEF RealPrivate, PrivateKey
<1>3. HybridPrivate(a, c) = HybridPrivate(b, d) <=> a = b /\ c = d
  <2>1. PICK u, v : u = RealPrivate("RealMLKEM768", c) /\ v = RealPrivate("RealMLKEM768", d)
    OBVIOUS
  <2>2. u = v <=> c = d
    BY <1>2, <2>1, Zenon
  <2>3. Hybrid("hybridPrivateKey", PrivateKey("X25519KEM", a), u)
          = Hybrid("hybridPrivateKey", PrivateKey("X25519KEM", b), v) <=> a = b /\ u = v
    BY DEF Hybrid, PrivateKey
  <2>4. QED
    BY <2>1, <2>2, <2>3, Zenon DEF HybridPrivate
<1>4. QED
  BY <1>1, <1>2, <1>3, Zenon

\* What is sealed to a key of X25519KEM.
LEMMA X25519Seals ==
  ASSUME NEW k \in Nat, NEW e \in Nat
  PROVE  X25519Encapsulate(PublicKey(X25519Public(k)), e)
           = IF e = 0 THEN Error ELSE Sealed(X25519Public(e), DH(e, k))
<1> DEFINE pk == PublicKey(X25519Public(k))
<1>1. PICK c \in Seq(Unit) : /\ c = X25519Public(k) /\ Len(c) = 1
                             /\ c[1].kind = "X25519KEM" /\ c[1].key = k
  <2>1. /\ X25519Public(k) \in Seq(Unit) /\ Len(X25519Public(k)) = 1
        /\ X25519Public(k)[1] = [kind |-> "X25519KEM", key |-> k, draw |-> 0, i |-> 1]
    BY X25519Keys
  <2>2. PICK c \in Seq(Unit) : c = X25519Public(k)
    BY <2>1
  <2>3. c[1].kind = "X25519KEM" /\ c[1].key = k
    BY <2>1, <2>2
  <2>4. QED
    BY <2>1, <2>2, <2>3, Zenon
<1>2. X25519(e, pk.bytes) = Opened(DH(e, k))
  <2>1. X25519(e, c) = Opened(DH(e, c[1].key))
    BY <1>1, X25519Ends, Zenon
  <2>2. pk.bytes = c
    BY <1>1 DEF PublicKey
  <2> HIDE DEF pk
  <2>3. QED
    BY <1>1, <2>1, <2>2, Zenon
<1> HIDE DEF pk
<1>3. PICK q : q = Opened(DH(e, k)) /\ q.ss = DH(e, k) /\ q.end # "error"
  <2>1. PICK q : q = Opened(DH(e, k))
    OBVIOUS
  <2>2. q.ss = DH(e, k) /\ q.end = "ok"
    BY <2>1, Ends, Zenon
  <2>3. QED
    BY <2>1, <2>2
<1>4. X25519Encapsulate(pk, e) = IF e = 0 THEN Error ELSE Sealed(X25519Public(e), q.ss)
  BY <1>2, <1>3, Zenon DEF X25519Encapsulate
<1>5. QED
  BY <1>3, <1>4, Zenon DEF pk

\* What is sealed to a key of a real ML-KEM.
LEMMA RealSeals ==
  ASSUME NEW t \in RealTypes, NEW k \in Nat, NEW e \in Nat
  PROVE  RealEncapsulate(MLKEMPublic(t, k), e)
           = IF e = 0 THEN Error ELSE Sealed(Units("ct", k, e, Size(t)), Term(t, k, e))
<1> DEFINE pk == MLKEMPublic(t, k)
<1>1. pk.bytes[1].kind = t /\ pk.bytes[1].key = k
  BY KeyBytes, Zenon
<1>2. pk.type = "mlkemPublicKey"
  BY DEF MLKEMPublic
<1> HIDE DEF pk
<1>3. RealEncapsulate(pk, e)
        = IF e = 0 THEN Error ELSE Sealed(Units("ct", k, e, Size(t)), Term(t, k, e))
  BY <1>1, <1>2, Zenon DEF RealEncapsulate
<1>4. QED
  BY <1>3, Zenon DEF pk

\* What KEMs seal to the key of the draws k, or k and kk.
X25519SealsTo(pk, k) ==
  \A d \in Nat \X Nat :
    Encapsulate(Simple("X25519KEM"), pk, d)
      = IF d[1] = 0 THEN Error ELSE Sealed(X25519Public(d[1]), DH(d[1], k))
RealSealsTo(r, t, pk, k) ==
  \A d \in Nat \X Nat :
    Encapsulate(Simple(r), pk, d)
      = IF d[1] = 0 THEN Error ELSE Sealed(Units("ct", k, d[1], Size(t)), Term(t, k, d[1]))
HybridSealsTo(R, pk, k, kk) ==
  \A d \in Nat \X Nat :
    Encapsulate(NewHybridMLKEM, pk, d)
      = IF d[1] = 0 \/ d[2] = 0 THEN Error
        ELSE Sealed(X25519Public(d[1]) \o Units("ct", kk, d[2], Size(R)),
                    XOR(DH(d[1], k), Term(R, kk, d[2])))

\* X25519KEM seals to its own keys only.
LEMMA X25519KEMSeals ==
  ASSUME NEW maker \in Implementations, NEW key \in Nat \X Nat, NEW seal \in Nat \X Nat,
         NEW made, made = GenerateKeyPair(maker, key), made.end = "ok",
         Encapsulate(Simple("X25519KEM"), made.pk, seal).end = "ok"
  PROVE  /\ maker = Simple("X25519KEM") /\ made = X25519Pair(key[1]) /\ key[1] # 0
         /\ X25519SealsTo(made.pk, key[1])
<1>1. PICK pk : pk = made.pk
  OBVIOUS
<1>2. ASSUME NEW d \in Nat \X Nat
      PROVE  Encapsulate(Simple("X25519KEM"), pk, d) = X25519Encapsulate(pk, d[1])
  <2>1. Encapsulate(Simple("X25519KEM"), pk, d) = PartEncapsulate("X25519KEM", pk, d[1])
    BY Dispatch, Zenon
  <2>2. QED
    BY <2>1, PartSeals, Zenon
<1>3. Len(pk.bytes) = 1
  <2>1. SUFFICES ASSUME Len(pk.bytes) # 1 PROVE FALSE
    OBVIOUS
  <2>2. X25519(seal[1], pk.bytes) = Error
    BY <2>1, Zenon DEF X25519
  <2>3. X25519Encapsulate(pk, seal[1]) = Error
    BY <2>2, Ends, Zenon DEF X25519Encapsulate
  <2>4. QED
    BY <1>1, <1>2, <2>3, Ends, Zenon
<1>4. maker = Simple("X25519KEM") /\ made = X25519Pair(key[1]) /\ key[1] # 0
  BY <1>1, <1>3, WhoMadeIt, Zenon
<1>5. PICK k \in Nat : k = key[1]
  OBVIOUS
<1>6. pk = PublicKey(X25519Public(k))
  BY <1>1, <1>4, <1>5 DEF X25519Pair, Ok
<1>7. ASSUME NEW d \in Nat \X Nat
      PROVE  Encapsulate(Simple("X25519KEM"), pk, d)
               = IF d[1] = 0 THEN Error ELSE Sealed(X25519Public(d[1]), DH(d[1], k))
  <2>1. PICK e \in Nat : e = d[1]
    OBVIOUS
  <2>2. QED
    BY <1>2, <1>6, <2>1, X25519Seals, Zenon
<1>8. QED
  BY <1>1, <1>4, <1>5, <1>7, Zenon DEF X25519SealsTo

\* The real ML-KEMs seal to the keys of both.
LEMMA RealMLKEMSeals ==
  ASSUME NEW r \in RealTypes, NEW maker \in Implementations, NEW key \in Nat \X Nat,
         NEW seal \in Nat \X Nat,
         NEW made, made = GenerateKeyPair(maker, key), made.end = "ok",
         Encapsulate(Simple(r), made.pk, seal).end = "ok"
  PROVE  \E t \in RealTypes :
           /\ maker = Simple(t) /\ made = RealPair(t, key[1])
           /\ RealSealsTo(r, t, made.pk, key[1])
<1>1. PICK pk : pk = made.pk
  OBVIOUS
<1>2. ASSUME NEW d \in Nat \X Nat
      PROVE  Encapsulate(Simple(r), pk, d) = RealEncapsulate(pk, d[1])
  <2>1. Encapsulate(Simple(r), pk, d) = PartEncapsulate(r, pk, d[1])
    BY Dispatch, Zenon
  <2>2. QED
    BY <2>1, PartSeals, Zenon
<1>3. pk.type = "mlkemPublicKey"
  BY <1>1, <1>2, Ends, Zenon DEF RealEncapsulate
<1>4. PICK t \in RealTypes : maker = Simple(t) /\ made = RealPair(t, key[1])
  BY <1>1, <1>3, WhoMadeIt, Zenon
<1>5. PICK k \in Nat : k = key[1]
  OBVIOUS
<1>6. pk = MLKEMPublic(t, k)
  BY <1>1, <1>4, <1>5 DEF RealPair, Ok
<1>7. ASSUME NEW d \in Nat \X Nat
      PROVE  Encapsulate(Simple(r), pk, d)
               = IF d[1] = 0 THEN Error
                 ELSE Sealed(Units("ct", k, d[1], Size(t)), Term(t, k, d[1]))
  <2>1. PICK e \in Nat : e = d[1]
    OBVIOUS
  <2>2. RealEncapsulate(MLKEMPublic(t, k), e)
          = IF e = 0 THEN Error ELSE Sealed(Units("ct", k, e, Size(t)), Term(t, k, e))
    BY RealSeals
  <2>3. QED
    BY <1>2, <1>6, <2>1, <2>2, Zenon
<1>8. QED
  BY <1>1, <1>4, <1>5, <1>7, Zenon DEF RealSealsTo

\* HybridMLKEM seals to its own keys only.
LEMMA HybridMLKEMSeals ==
  ASSUME NEW maker \in Implementations, NEW key \in Nat \X Nat, NEW seal \in Nat \X Nat,
         NEW made, made = GenerateKeyPair(maker, key), made.end = "ok",
         Encapsulate(NewHybridMLKEM, made.pk, seal).end = "ok"
  PROVE  /\ maker = NewHybridMLKEM /\ made.sk = HybridPrivate(key[1], key[2]) /\ key[1] # 0
         /\ HybridSealsTo("RealMLKEM768", made.pk, key[1], key[2])
<1> DEFINE H == NewHybridMLKEM
<1>1. PICK pk : pk = made.pk
  OBVIOUS
<1>2. \A d \in Nat \X Nat : Encapsulate(H, pk, d) = HybridMLKEMEncapsulate(H, pk, d)
  BY Dispatch, Zenon
<1>3. pk.type = "hybridPublicKey"
  BY <1>1, <1>2, Ends, Zenon DEF HybridMLKEMEncapsulate
<1>4. maker = NewHybridMLKEM
  BY <1>1, <1>3, WhoMadeIt, Zenon
<1>5. PICK k, kk \in Nat : k = key[1] /\ kk = key[2]
  OBVIOUS
<1>6. PICK R \in RealTypes : R = "RealMLKEM768" /\ R = H.pq
  BY DEF RealTypes, NewHybridMLKEM
<1>7. H.classical = "X25519KEM"
  BY DEF NewHybridMLKEM
<1>8. /\ pk.parts[1] = PublicKey(X25519Public(k)) /\ pk.parts[2] = MLKEMPublic(R, kk)
      /\ made.sk = HybridPrivate(k, kk) /\ k # 0
  BY <1>1, <1>4, <1>5, <1>6, HybridMLKEMMakes, Zenon
<1> HIDE DEF H
<1>9. ASSUME NEW d \in Nat \X Nat
      PROVE  Encapsulate(H, pk, d)
               = IF d[1] = 0 \/ d[2] = 0 THEN Error
                 ELSE Sealed(X25519Public(d[1]) \o Units("ct", kk, d[2], Size(R)),
                             XOR(DH(d[1], k), Term(R, kk, d[2])))
  <2>1. PICK e, ee \in Nat : e = d[1] /\ ee = d[2]
    OBVIOUS
  <2>2. PICK c, q : /\ c = X25519Encapsulate(PublicKey(X25519Public(k)), e)
                    /\ q = RealEncapsulate(MLKEMPublic(R, kk), ee)
    OBVIOUS
  <2>3. PartEncapsulate(H.classical, pk.parts[1], d[1]) = c
    BY <1>7, <1>8, <2>1, <2>2, PartSeals, Zenon
  <2>4. PartEncapsulate(H.pq, pk.parts[2], d[2]) = q
    BY <1>6, <1>8, <2>1, <2>2, PartSeals, Zenon
  <2>5. Encapsulate(H, pk, d) = Both(c, q, Sealed(c.ct \o q.ct, XOR(c.ss, q.ss)))
    BY <1>2, <1>3, <2>3, <2>4, Zenon DEF HybridMLKEMEncapsulate
  <2>6. c = IF e = 0 THEN Error ELSE Sealed(X25519Public(e), DH(e, k))
    BY <2>2, X25519Seals, Zenon
  <2>7. q = IF ee = 0 THEN Error
            ELSE Sealed(Units("ct", kk, ee, Size(R)), Term(R, kk, ee))
    BY <2>2, RealSeals, Zenon
  <2>8. CASE e = 0 \/ ee = 0
    <3>1. Both(c, q, Sealed(c.ct \o q.ct, XOR(c.ss, q.ss))) = Error
      <4>1. CASE e = 0
        BY <2>6, <4>1, Ends, Zenon DEF Both
      <4>2. CASE e # 0
        <5>1. c.end = "ok"
          BY <2>6, <4>2 DEF Sealed
        <5>2. q = Error
          BY <2>7, <2>8, <4>2, Zenon
        <5>3. QED
          BY <5>1, <5>2, Ends, Zenon DEF Both
      <4>3. QED
        BY <4>1, <4>2
    <3>2. QED
      BY <2>1, <2>5, <2>8, <3>1, Zenon
  <2>9. CASE e # 0 /\ ee # 0
    <3>1. c.end = "ok" /\ c.ct = X25519Public(e) /\ c.ss = DH(e, k)
      BY <2>6, <2>9 DEF Sealed
    <3>2. q.end = "ok" /\ q.ct = Units("ct", kk, ee, Size(R)) /\ q.ss = Term(R, kk, ee)
      BY <2>7, <2>9 DEF Sealed
    <3>3. QED
      BY <2>1, <2>5, <2>9, <3>1, <3>2, Zenon DEF Both
  <2>10. QED
    BY <2>8, <2>9, Zenon
<1>10. QED
  BY <1>1, <1>4, <1>5, <1>6, <1>8, <1>9, Zenon DEF H, HybridSealsTo

-----------------------------------------------------------------------------
(* Agreement *)

\* Whoever opens has not drawn the sender's own scalar, unless the sender drew
\* that of the key (0 is no key).
Fresh(key, opener, seal) == key[1] # 0 /\ opener[1] = seal[1] => key[1] = seal[1]

\* X25519KEM
LEMMA X25519KEMAgrees ==
  ASSUME NEW maker \in Implementations, NEW key \in Nat \X Nat, NEW opener \in Nat \X Nat,
         NEW seal \in Nat \X Nat, NEW ct \in Seq(Unit), Fresh(key, opener, seal)
  PROVE  Agreement(Simple("X25519KEM"), maker, key, opener, seal, ct)
<1> DEFINE made == GenerateKeyPair(maker, key)
           other == GenerateKeyPair(maker, opener)
           sealed == Encapsulate(Simple("X25519KEM"), made.pk, seal)
           opened == Decapsulate(Simple("X25519KEM"), other.sk, ct, <<9, 9>>)
<1>w. Simple("X25519KEM") \in Working
  BY DEF Working
<1> SUFFICES ASSUME made.end = "ok", other.end = "ok", sealed.end = "ok"
             PROVE  (opened.end = "ok" /\ opened.ss = sealed.ss)
                      <=> (Canonical(ct) = sealed.ct /\ other.sk = made.sk)
  BY <1>w, Zenon DEF Agreement
<1>1. PICK k, o, e \in Nat : /\ k = key[1] /\ o = opener[1] /\ e = seal[1]
                             /\ k # 0 /\ o = e => k = e
  BY DEF Fresh
<1>2. /\ maker = Simple("X25519KEM") /\ made = X25519Pair(k) /\ k # 0
      /\ sealed = IF e = 0 THEN Error ELSE Sealed(X25519Public(e), DH(e, k))
  <2>1. /\ made = GenerateKeyPair(maker, key) /\ made.end = "ok"
        /\ Encapsulate(Simple("X25519KEM"), made.pk, seal).end = "ok"
    OBVIOUS
  <2> HIDE DEF made
  <2>2. /\ maker = Simple("X25519KEM") /\ made = X25519Pair(key[1]) /\ key[1] # 0
        /\ X25519SealsTo(made.pk, key[1])
    BY <2>1, X25519KEMSeals
  <2>3. QED
    BY <1>1, <2>2, Zenon DEF X25519SealsTo
<1>3. opened = X25519(other.sk.draw, ct)
  <2>1. PICK sk, d : sk = other.sk /\ d = <<9, 9>>
    OBVIOUS
  <2>2. Decapsulate(Simple("X25519KEM"), sk, ct, d) = PartDecapsulate("X25519KEM", sk, ct, d[1])
    BY Dispatch, Zenon
  <2>3. PICK c : c = d[1]
    OBVIOUS
  <2>4. PartDecapsulate("X25519KEM", sk, ct, c) = X25519(sk.draw, ct)
    BY PartOpens, Zenon
  <2>5. QED
    BY <2>1, <2>2, <2>3, <2>4, Zenon
<1>6. other = X25519Pair(o)
  <2>1. other = PartGenerate("X25519KEM", o)
    BY <1>1, <1>2, Dispatch, TypesDiffer, Zenon
  <2>2. QED
    BY <2>1, PartMakes, Ends, Zenon DEF X25519Pair
<1> HIDE DEF made, other
<1>7. made.sk = PrivateKey("X25519KEM", k)
  BY <1>2 DEF X25519Pair, Ok
<1>8. other.sk = PrivateKey("X25519KEM", o) /\ other.sk.draw = o
  BY <1>6 DEF X25519Pair, Ok, PrivateKey
<1> HIDE DEF opened, sealed
<1>10. sealed.ct = X25519Public(e) /\ sealed.ss = DH(e, k)
  <2>1. sealed.end = "ok"
    BY DEF sealed
  <2>2. sealed = Sealed(X25519Public(e), DH(e, k))
    BY <1>2, <2>1, Ends, Zenon
  <2>3. QED
    BY <2>2 DEF Sealed
<1>11. opened = X25519(o, ct)
  BY <1>3, <1>8, Zenon
<1>12. other.sk = made.sk <=> o = k
  BY <1>7, <1>8, PrivateKeysDiffer, Zenon
<1>13. Yields(opened, DHKinds, DH(e, k), Canonical(ct) = X25519Public(e) /\ o = k)
  <2>1. o = e => k = e
    BY <1>1, <1>2
  <2>2. QED
    BY <1>11, <2>1, X25519Opens, Zenon
<1>14. QED
  <2>1. PICK right \in BOOLEAN : right <=> Canonical(ct) = X25519Public(e) /\ o = k
    OBVIOUS
  <2>2. opened.end = "ok" /\ opened.ss = DH(e, k) <=> right
    <3>1. Yields(opened, DHKinds, DH(e, k), right)
      BY <1>13, <2>1, Zenon DEF Yields
    <3>2. QED
      BY <3>1, YieldsSecret, Zenon
  <2>3. QED
    BY <1>10, <1>12, <2>1, <2>2, Zenon

\* RealMLKEM768 and RealMLKEM1024
LEMMA RealMLKEMAgrees ==
  ASSUME NEW r \in RealTypes, NEW maker \in Implementations, NEW key \in Nat \X Nat,
         NEW opener \in Nat \X Nat, NEW seal \in Nat \X Nat, NEW ct \in Seq(Unit)
  PROVE  Agreement(Simple(r), maker, key, opener, seal, ct)
<1> DEFINE made == GenerateKeyPair(maker, key)
           other == GenerateKeyPair(maker, opener)
           sealed == Encapsulate(Simple(r), made.pk, seal)
           opened == Decapsulate(Simple(r), other.sk, ct, <<9, 9>>)
<1>w. Simple(r) \in Working
  BY DEF Working, RealTypes
<1> SUFFICES ASSUME made.end = "ok", other.end = "ok", sealed.end = "ok"
             PROVE  (opened.end = "ok" /\ opened.ss = sealed.ss)
                      <=> (Canonical(ct) = sealed.ct /\ other.sk = made.sk)
  BY <1>w, Zenon DEF Agreement
<1>1. PICK k, o, e \in Nat : k = key[1] /\ o = opener[1] /\ e = seal[1]
  OBVIOUS
<1>2. PICK t \in RealTypes :
        /\ maker = Simple(t) /\ made = RealPair(t, k)
        /\ sealed = IF e = 0 THEN Error
                    ELSE Sealed(Units("ct", k, e, Size(t)), Term(t, k, e))
  <2>1. /\ made = GenerateKeyPair(maker, key) /\ made.end = "ok"
        /\ Encapsulate(Simple(r), made.pk, seal).end = "ok"
    OBVIOUS
  <2> HIDE DEF made
  <2>2. PICK t \in RealTypes : /\ maker = Simple(t) /\ made = RealPair(t, key[1])
                               /\ RealSealsTo(r, t, made.pk, key[1])
    BY <2>1, RealMLKEMSeals
  <2>3. QED
    BY <1>1, <2>2, Zenon DEF RealSealsTo
<1>3. opened = RealDecapsulate(other.sk, ct)
  <2>1. PICK sk, d : sk = other.sk /\ d = <<9, 9>>
    OBVIOUS
  <2>2. Decapsulate(Simple(r), sk, ct, d) = PartDecapsulate(r, sk, ct, d[1])
    BY Dispatch, Zenon
  <2>3. PICK c : c = d[1]
    OBVIOUS
  <2>4. PartDecapsulate(r, sk, ct, c) = RealDecapsulate(sk, ct)
    BY PartOpens, Zenon
  <2>5. QED
    BY <2>1, <2>2, <2>3, <2>4, Zenon
<1>6. other = RealPair(t, o)
  <2>1. other = PartGenerate(t, o)
    BY <1>1, <1>2, Dispatch, TypesDiffer, Zenon
  <2>2. QED
    BY <2>1, PartMakes, Ends, Zenon DEF RealPair
<1> HIDE DEF made, other
<1>7. made.sk = RealPrivate(t, k)
  BY <1>2 DEF RealPair, Ok
<1>8. /\ other.sk = RealPrivate(t, o)
      /\ other.sk.type = "mlkemPrivateKey" /\ other.sk.scheme = t /\ other.sk.draw = o
  BY <1>6 DEF RealPair, Ok, RealPrivate, PrivateKey
<1>9. sealed.ct = Units("ct", k, e, Size(t)) /\ sealed.ss = Term(t, k, e)
  <2>1. sealed = Sealed(Units("ct", k, e, Size(t)), Term(t, k, e))
    BY <1>2, Ends, Zenon
  <2> HIDE DEF sealed
  <2>2. QED
    BY <2>1 DEF Sealed
<1>10. opened = MLKEMOpen(t, o, ct)
  BY <1>3, <1>8, Zenon DEF RealDecapsulate
<1>11. other.sk = made.sk <=> o = k
  <2>1. RealPrivate(t, o) = RealPrivate(t, k) <=> o = k
    BY PrivateKeysDiffer
  <2>2. QED
    BY <1>7, <1>8, <2>1, Zenon
<1> HIDE DEF opened, sealed
<1>12. Yields(opened, KEMKinds, Term(t, k, e),
              ct = Units("ct", k, e, Size(t)) /\ o = k)
  BY <1>10, MLKEMOpens, Zenon
<1>13. QED
  <2>1. PICK right \in BOOLEAN : right <=> ct = Units("ct", k, e, Size(t)) /\ o = k
    OBVIOUS
  <2>2. opened.end = "ok" /\ opened.ss = Term(t, k, e) <=> right
    <3>1. Yields(opened, KEMKinds, Term(t, k, e), right)
      BY <1>12, <2>1, Zenon DEF Yields
    <3>2. QED
      BY <3>1, YieldsSecret, Zenon
  <2>3. Canonical(ct) = Units("ct", k, e, Size(t)) <=> ct = Units("ct", k, e, Size(t))
    BY CanonicalCt
  <2>4. QED
    BY <1>9, <1>11, <2>1, <2>2, <2>3, Zenon

\* The two halves of a hybrid's ciphertext.
FirstHalf(ct) == SubSeq(ct, 1, 1)
OtherHalf(ct) == SubSeq(ct, 2, Len(ct))

\* A ciphertext is two given parts exactly when the split gives these parts.
LEMMA SplitAtOne ==
  ASSUME NEW ct \in Seq(Unit), Len(ct) \in Nat \ {0}, NEW a \in Seq(Unit), Len(a) = 1,
         NEW b \in Seq(Unit)
  PROVE  /\ FirstHalf(ct) \in Seq(Unit) /\ OtherHalf(ct) \in Seq(Unit)
         /\ ct = a \o b <=> FirstHalf(ct) = a /\ OtherHalf(ct) = b
<1> DEFINE head == SubSeq(ct, 1, 1)
           tail == SubSeq(ct, 2, Len(ct))
<1>0. \A i \in 1..Len(ct) : ct[i] \in Unit
  BY ElementOfSeq
<1>1. head \in Seq(Unit) /\ Len(head) = 1 /\ head[1] = ct[1]
  <2>1. \A i \in 1..1 : ct[i] \in Unit
    BY <1>0
  <2>2. QED
    BY <2>1, SubSeqProperties
<1>2. /\ tail \in Seq(Unit) /\ Len(tail) = Len(ct) - 1
      /\ \A i \in 1..Len(ct) - 1 : tail[i] = ct[i + 1]
  <2>1. \A i \in 2..Len(ct) : ct[i] \in Unit
    BY <1>0
  <2>2. QED
    BY <2>1, SubSeqProperties
<1> HIDE DEF head, tail
<1>3. ct = head \o tail
  <2> DEFINE both == head \o tail
  <2>1. /\ both \in Seq(Unit) /\ Len(both) = Len(head) + Len(tail)
        /\ \A i \in 1..Len(head) + Len(tail) :
             both[i] = IF i <= Len(head) THEN head[i] ELSE tail[i - Len(head)]
    BY <1>1, <1>2, ConcatProperties
  <2> HIDE DEF both
  <2>2. Len(both) = Len(ct)
    BY <1>1, <1>2, <2>1
  <2>3. ASSUME NEW i \in 1..Len(ct) PROVE ct[i] = both[i]
    <3>1. CASE i = 1
      BY <1>1, <1>2, <2>1, <3>1
    <3>2. CASE i > 1
      <4>1. PICK j \in 1..Len(ct) - 1 : i = j + 1
        BY <3>2
      <4>2. both[i] = tail[j]
        BY <1>1, <1>2, <2>1, <4>1
      <4>3. QED
        BY <1>2, <4>1, <4>2
    <3>3. QED
      BY <3>1, <3>2
  <2>4. QED
    BY <2>1, <2>2, <2>3, SeqEqual DEF both
<1>4. ASSUME ct = a \o b PROVE head = a /\ tail = b
  <2>1. Len(a \o b) = Len(a) + Len(b)
    BY ConcatProperties
  <2>2. Len(b) \in Nat
    BY LenProperties
  <2>3. Len(tail) = Len(b)
    BY <1>2, <1>4, <2>1, <2>2
  <2>4. head \o tail = a \o b
    BY <1>3, <1>4
  <2>5. QED
    BY <1>1, <1>2, <2>3, <2>4, SameParts
<1>5. QED
  BY <1>1, <1>2, <1>3, <1>4, Zenon DEF head, tail, FirstHalf, OtherHalf

\* The canonical form of a part is the part of the canonical form.
LEMMA CanonicalPart ==
  ASSUME NEW ct \in Seq(Unit), NEW a \in 1..2, NEW b \in Nat, a <= b + 1, b <= Len(ct)
  PROVE  SubSeq(Canonical(ct), a, b) = Canonical(SubSeq(ct, a, b))
<1> DEFINE at(u) == IF u.kind = "X25519KEM" THEN [u EXCEPT !.draw = 0] ELSE u
<1>1. PICK c \in Seq(Unit) : /\ c = Canonical(ct) /\ Len(c) = Len(ct)
                             /\ \A i \in 1..Len(ct) : c[i] = at(ct[i])
  BY CanonicalType, Zenon
<1>2. \A i \in 1..Len(ct) : ct[i] \in Unit /\ c[i] \in Unit
  BY <1>1, ElementOfSeq
<1>3. \A i \in a..b : i \in 1..Len(ct)
  BY LenProperties
<1>n. a \in Int /\ b \in Int /\ a <= b + 1
  OBVIOUS
<1>4. PICK p \in Seq(Unit) : /\ p = SubSeq(ct, a, b) /\ Len(p) = b - a + 1
                             /\ \A i \in 1..b - a + 1 : p[i] = ct[a + i - 1]
  <2>1. \A i \in a..b : ct[i] \in Unit
    BY <1>2, <1>3
  <2>2. /\ SubSeq(ct, a, b) \in Seq(Unit)
        /\ Len(SubSeq(ct, a, b)) = IF a <= b THEN b - a + 1 ELSE 0
        /\ \A i \in 1..b - a + 1 : SubSeq(ct, a, b)[i] = ct[a + i - 1]
    BY <1>n, <2>1, SubSeqProperties
  <2>3. Len(SubSeq(ct, a, b)) = b - a + 1
    BY <1>n, <2>2
  <2>4. QED
    BY <2>2, <2>3, Zenon
<1>5. PICK q \in Seq(Unit) : /\ q = SubSeq(c, a, b) /\ Len(q) = b - a + 1
                             /\ \A i \in 1..b - a + 1 : q[i] = c[a + i - 1]
  <2>1. \A i \in a..b : c[i] \in Unit
    BY <1>2, <1>3
  <2>2. /\ SubSeq(c, a, b) \in Seq(Unit)
        /\ Len(SubSeq(c, a, b)) = IF a <= b THEN b - a + 1 ELSE 0
        /\ \A i \in 1..b - a + 1 : SubSeq(c, a, b)[i] = c[a + i - 1]
    BY <1>n, <2>1, SubSeqProperties
  <2>3. Len(SubSeq(c, a, b)) = b - a + 1
    BY <1>n, <2>2
  <2>4. QED
    BY <2>2, <2>3, Zenon
<1>6. PICK m \in Seq(Unit) : /\ m = Canonical(p) /\ Len(m) = Len(p)
                             /\ \A i \in 1..Len(p) : m[i] = at(p[i])
  BY CanonicalType, Zenon
<1> HIDE DEF at
<1>7. ASSUME NEW i \in 1..b - a + 1 PROVE q[i] = m[i]
  <2>1. a + i - 1 \in 1..Len(ct)
    BY LenProperties
  <2>2. q[i] = at(ct[a + i - 1])
    BY <1>1, <1>5, <2>1
  <2>3. m[i] = at(ct[a + i - 1])
    BY <1>4, <1>6
  <2>4. QED
    BY <2>2, <2>3
<1>8. q = m
  BY <1>4, <1>5, <1>6, <1>7, SeqEqual
<1>9. QED
  BY <1>1, <1>4, <1>5, <1>6, <1>8, Zenon

\* The first part of ct reads as a and the other as b exactly when ct reads as both.
ReadsAs(ct, a, b) ==
  /\ FirstHalf(ct) \in Seq(Unit) /\ OtherHalf(ct) \in Seq(Unit)
  /\ Canonical(ct) = a \o b
       <=> Canonical(FirstHalf(ct)) = a /\ Canonical(OtherHalf(ct)) = b

\* A ciphertext reads as two given parts exactly when its halves read as these.
LEMMA SplitReading ==
  ASSUME NEW ct \in Seq(Unit), Len(ct) \in Nat \ {0}, NEW a \in Seq(Unit), Len(a) = 1,
         NEW b \in Seq(Unit)
  PROVE  ReadsAs(ct, a, b)
<1>1. FirstHalf(ct) \in Seq(Unit) /\ OtherHalf(ct) \in Seq(Unit)
  BY SplitAtOne
<1>2. PICK c \in Seq(Unit) : c = Canonical(ct) /\ Len(c) = Len(ct)
  BY CanonicalType, Zenon
<1>3. c = a \o b <=> FirstHalf(c) = a /\ OtherHalf(c) = b
  <2>1. Len(c) \in Nat \ {0}
    BY <1>2, Zenon
  <2>2. QED
    BY <2>1, SplitAtOne, Zenon
<1>4. FirstHalf(c) = Canonical(FirstHalf(ct))
  <2>1. PICK x \in 1..2, y \in Nat : x = 1 /\ y = 1 /\ x <= y + 1 /\ y <= Len(ct)
    OBVIOUS
  <2>2. SubSeq(Canonical(ct), x, y) = Canonical(SubSeq(ct, x, y))
    BY <2>1, CanonicalPart, Zenon
  <2>3. QED
    BY <1>2, <2>1, <2>2, Zenon DEF FirstHalf
<1>5. OtherHalf(c) = Canonical(OtherHalf(ct))
  <2>1. PICK x \in 1..2, n \in Nat : x = 2 /\ n = Len(ct) /\ x <= n + 1 /\ n <= Len(ct)
    OBVIOUS
  <2>2. SubSeq(Canonical(ct), x, n) = Canonical(SubSeq(ct, x, n))
    BY <2>1, CanonicalPart, Zenon
  <2>3. QED
    BY <1>2, <2>1, <2>2, Zenon DEF OtherHalf
<1>6. QED
  BY <1>1, <1>2, <1>3, <1>4, <1>5, Zenon DEF ReadsAs


\* Two terms of different kinds are told apart in what XOR makes of them.
LEMMA XORTellsApart ==
  ASSUME NEW x, NEW y, NEW u, NEW v,
         x.kind \in DHKinds, u.kind \in DHKinds, y.kind \in KEMKinds, v.kind \in KEMKinds
  PROVE  XOR({x}, {y}) = XOR({u}, {v}) <=> x = u /\ y = v
<1>1. x # y /\ u # v /\ x # v /\ u # y
  BY DEF DHKinds, KEMKinds, RealTypes
<1>2. XOR({x}, {y}) = {x, y} /\ XOR({u}, {v}) = {u, v}
  BY <1>1, XORKeepsBoth
<1>3. {x, y} = {u, v} => x = u /\ y = v
  BY <1>1
<1>4. QED
  BY <1>2, <1>3, Zenon

\* What HybridMLKEM makes of what its parts open, and when it is the secret.
OpenedBy(c, q) == Both(c, q, Opened(XOR(c.ss, q.ss)))
Succeeds(opened, secret, right) == opened.end = "ok" /\ opened.ss = secret <=> right

\* Of both parts of what is opened, the secret comes exactly when both are right.
LEMMA BothYield ==
  ASSUME NEW c, NEW q, NEW x, NEW y, x.kind \in DHKinds, y.kind \in KEMKinds,
         NEW r1 \in BOOLEAN, NEW r2 \in BOOLEAN,
         Yields(c, DHKinds, {x}, r1), Yields(q, KEMKinds, {y}, r2)
  PROVE  Succeeds(OpenedBy(c, q), XOR({x}, {y}), r1 /\ r2)
<1> DEFINE opened == OpenedBy(c, q)
<1>0. opened = Both(c, q, Opened(XOR(c.ss, q.ss)))
  BY DEF OpenedBy
<1> SUFFICES opened.end = "ok" /\ opened.ss = XOR({x}, {y}) <=> r1 /\ r2
  BY Zenon DEF Succeeds
<1> HIDE DEF opened
<1>1. CASE c.end = "ok" /\ q.end = "ok"
  <2>1. PICK u : c = Opened({u}) /\ u.kind \in DHKinds /\ ({u} = {x} <=> r1)
    BY <1>1, Zenon DEF Yields
  <2>2. PICK v : q = Opened({v}) /\ v.kind \in KEMKinds /\ ({v} = {y} <=> r2)
    BY <1>1, Zenon DEF Yields
  <2>3. c.ss = {u} /\ q.ss = {v}
    BY <2>1, <2>2, Ends, Zenon
  <2>4. opened = Opened(XOR({u}, {v}))
    BY <1>0, <1>1, <2>3, Zenon DEF Both
  <2>5. opened.end = "ok" /\ opened.ss = XOR({u}, {v})
    BY <2>4, Ends, Zenon
  <2>6. XOR({u}, {v}) = XOR({x}, {y}) <=> u = x /\ v = y
    <3>1. u.kind \in DHKinds /\ v.kind \in KEMKinds
      BY <2>1, <2>2, Zenon
    <3>2. QED
      BY <3>1, XORTellsApart
  <2>7. ({u} = {x} <=> u = x) /\ ({v} = {y} <=> v = y)
    OBVIOUS
  <2>8. QED
    BY <2>1, <2>2, <2>5, <2>6, <2>7, Zenon
<1>2. CASE c.end # "ok" \/ q.end # "ok"
  <2>1. ~(r1 /\ r2)
    BY <1>2, Zenon DEF Yields
  <2>2. opened.end # "ok"
    BY <1>0, <1>2, Zenon DEF Both
  <2>3. QED
    BY <2>1, <2>2, Zenon
<1>3. QED
  BY <1>1, <1>2, Zenon

\* What the two parts of a hybrid private key are.
LEMMA HybridParts ==
  ASSUME NEW a, NEW b
  PROVE  LET sk == HybridPrivate(a, b)
         IN  /\ sk.type = "hybridPrivateKey" /\ sk.parts[1].draw = a
             /\ sk.parts[2].type = "mlkemPrivateKey"
             /\ sk.parts[2].scheme = "RealMLKEM768" /\ sk.parts[2].draw = b
<1>1. PICK c, q : c = PrivateKey("X25519KEM", a) /\ q = RealPrivate("RealMLKEM768", b)
  OBVIOUS
<1>2. /\ c.draw = a /\ q.type = "mlkemPrivateKey"
      /\ q.scheme = "RealMLKEM768" /\ q.draw = b
  BY <1>1 DEF PrivateKey, RealPrivate
<1>3. HybridPrivate(a, b).type = "hybridPrivateKey" /\ HybridPrivate(a, b).parts = <<c, q>>
  BY <1>1 DEF HybridPrivate, Hybrid, PrivateKey
<1>4. PICK s : s = HybridPrivate(a, b)
  OBVIOUS
<1>5. s.parts[1] = c /\ s.parts[2] = q
  BY <1>3, <1>4
<1>6. QED
  BY <1>2, <1>3, <1>4, <1>5, Zenon

\* HybridMLKEM
LEMMA HybridMLKEMAgrees ==
  ASSUME NEW maker \in Implementations, NEW key \in Nat \X Nat, NEW opener \in Nat \X Nat,
         NEW seal \in Nat \X Nat, NEW ct \in Seq(Unit), Fresh(key, opener, seal)
  PROVE  Agreement(NewHybridMLKEM, maker, key, opener, seal, ct)
<1> DEFINE H == NewHybridMLKEM
           made == GenerateKeyPair(maker, key)
           other == GenerateKeyPair(maker, opener)
           sealed == Encapsulate(H, made.pk, seal)
           opened == Decapsulate(H, other.sk, ct, <<9, 9>>)
<1>w. NewHybridMLKEM \in Working
  BY DEF Working
<1> SUFFICES ASSUME made.end = "ok", other.end = "ok", sealed.end = "ok"
             PROVE  (opened.end = "ok" /\ opened.ss = sealed.ss)
                      <=> (Canonical(ct) = sealed.ct /\ other.sk = made.sk)
  BY <1>w, Zenon DEF Agreement
<1>1. PICK k, kk, o, oo, e, ee \in Nat :
        /\ k = key[1] /\ o = opener[1] /\ e = seal[1] /\ (k # 0 /\ o = e => k = e)
        /\ kk = key[2] /\ oo = opener[2] /\ ee = seal[2]
  BY DEF Fresh
<1>2. PICK R \in RealTypes : R = "RealMLKEM768" /\ R = H.pq
  BY DEF RealTypes, NewHybridMLKEM
<1>3. H.classical = "X25519KEM" /\ Size(H.classical) = 1
  BY Sizes DEF NewHybridMLKEM
<1>4. PICK sk, nine : sk = other.sk /\ nine = <<9, 9>>
  OBVIOUS
<1>5. /\ maker = NewHybridMLKEM /\ made.sk = HybridPrivate(k, kk) /\ k # 0
      /\ sealed = IF e = 0 \/ ee = 0 THEN Error
                  ELSE Sealed(X25519Public(e) \o Units("ct", kk, ee, Size(R)),
                              XOR(DH(e, k), Term(R, kk, ee)))
  <2>1. /\ made = GenerateKeyPair(maker, key) /\ made.end = "ok"
        /\ Encapsulate(NewHybridMLKEM, made.pk, seal).end = "ok"
    OBVIOUS
  <2> HIDE DEF made
  <2>2. /\ maker = NewHybridMLKEM /\ made.sk = HybridPrivate(key[1], key[2]) /\ key[1] # 0
        /\ HybridSealsTo("RealMLKEM768", made.pk, key[1], key[2])
    BY <2>1, HybridMLKEMSeals
  <2>3. QED
    BY <1>1, <1>2, <2>2, Zenon DEF HybridSealsTo
<1>6. opened = HybridMLKEMDecapsulate(H, sk, ct, nine)
  BY <1>4, Dispatch, Zenon
<1>10. sk = HybridPrivate(o, oo)
  BY <1>1, <1>4, <1>5, HybridMLKEMMakes, Zenon
<1> HIDE DEF H, made, other
<1> DEFINE head == X25519Public(e)
           tail == Units("ct", kk, ee, Size(R))
<1>11. sealed.ct = head \o tail /\ sealed.ss = XOR(DH(e, k), Term(R, kk, ee))
  <2> DEFINE ss == XOR(DH(e, k), Term(R, kk, ee))
  <2>1. sealed = Sealed(head \o tail, ss)
    BY <1>5, Ends, Zenon
  <2> HIDE DEF sealed, head, tail, ss
  <2>2. sealed.ct = head \o tail /\ sealed.ss = ss
    BY <2>1 DEF Sealed
  <2>3. QED
    BY <2>2, Zenon DEF ss
<1>12. other.sk = made.sk <=> o = k /\ oo = kk
  <2>1. HybridPrivate(o, oo) = HybridPrivate(k, kk) <=> o = k /\ oo = kk
    BY PrivateKeysDiffer
  <2>2. QED
    BY <1>4, <1>5, <1>10, <2>1, Zenon
<1>13. head \in Seq(Unit) /\ Len(head) = 1 /\ tail \in Seq(Unit)
  <2>1. head \in Seq(Unit) /\ Len(head) = 1
    BY X25519Keys
  <2>2. tail \in Seq(Unit)
    BY CtUnits, Zenon DEF AreUnits
  <2>3. QED
    BY <2>1, <2>2
<1>14. PICK f, g : /\ DH(e, k) = {f} /\ f.kind = "dh"
                   /\ Term(R, kk, ee) = {g} /\ g.kind = R
  <2>1. PICK f : DH(e, k) = {f} /\ f.kind = "dh"
    BY DHIsOne, Zenon
  <2>2. PICK g : Term(R, kk, ee) = {g} /\ g.kind = R
    BY TermIsOne
  <2>3. QED
    BY <2>1, <2>2, Zenon
<1>15. CASE Len(ct) = 0
  <2>1. opened = Error
    <3>1. Len(ct) < Size(H.classical)
      BY <1>3, <1>15
    <3>2. QED
      BY <1>6, <3>1, Zenon DEF HybridMLKEMDecapsulate
  <2>2. Canonical(ct) # head \o tail
    <3> HIDE DEF head, tail
    <3>1. Len(head \o tail) = Len(head) + Len(tail) /\ Len(tail) \in Nat
      BY <1>13, ConcatProperties, LenProperties
    <3>2. Len(Canonical(ct)) = Len(ct)
      BY CanonicalType
    <3>3. QED
      BY <1>13, <1>15, <3>1, <3>2
  <2>3. QED
    BY <1>11, <2>1, <2>2, Ends, Zenon
<1>16. CASE Len(ct) \in Nat \ {0}
  <2> DEFINE one == FirstHalf(ct)
             rest == OtherHalf(ct)
             c == X25519(o, one)
             q == MLKEMOpen(R, oo, rest)
  <2>1. /\ one \in Seq(Unit) /\ rest \in Seq(Unit)
        /\ Canonical(ct) = head \o tail <=> Canonical(one) = head /\ rest = tail
    <3>1. Canonical(rest) = tail <=> rest = tail
      <4>1. rest \in Seq(Unit)
        <5> HIDE DEF head, tail
        <5>1. QED
          BY <1>13, <1>16, SplitAtOne
      <4> HIDE DEF rest
      <4>2. QED
        BY <4>1, CanonicalCt
    <3> HIDE DEF head, tail
    <3>2. /\ one \in Seq(Unit) /\ rest \in Seq(Unit)
          /\ Canonical(ct) = head \o tail <=> Canonical(one) = head /\ Canonical(rest) = tail
      <4>1. PICK a \in Seq(Unit), b \in Seq(Unit) : a = head /\ b = tail /\ Len(a) = 1
        BY <1>13, Zenon
      <4>2. ReadsAs(ct, a, b)
        <5>1. /\ ct \in Seq(Unit) /\ Len(ct) \in Nat \ {0}
              /\ a \in Seq(Unit) /\ Len(a) = 1 /\ b \in Seq(Unit)
          BY <1>16, <4>1
        <5>2. QED
          BY <5>1, SplitReading, Zenon
      <4>3. QED
        BY <4>1, <4>2, Zenon DEF ReadsAs
    <3>3. QED
      BY <3>1, <3>2, Zenon
  <2>2. opened = Both(c, q, Opened(XOR(c.ss, q.ss)))
    <3>1. /\ sk.type = "hybridPrivateKey" /\ sk.parts[1].draw = o
          /\ sk.parts[2].type = "mlkemPrivateKey"
          /\ sk.parts[2].scheme = R /\ sk.parts[2].draw = oo
      <4>1. LET all == HybridPrivate(o, oo)
            IN  /\ all.type = "hybridPrivateKey" /\ all.parts[1].draw = o
                /\ all.parts[2].type = "mlkemPrivateKey"
                /\ all.parts[2].scheme = "RealMLKEM768" /\ all.parts[2].draw = oo
        BY HybridParts
      <4>2. QED
        BY <1>2, <1>10, <4>1, Zenon
    <3>2. ~(Len(ct) < Size(H.classical))
      BY <1>3, <1>16
    <3>3. SplitCiphertext(H, ct)[1] = one /\ SplitCiphertext(H, ct)[2] = rest
      BY <1>3 DEF SplitCiphertext, FirstHalf, OtherHalf
    <3>4. PICK p, s, j, m : p = sk.parts[1] /\ s = sk.parts[2] /\ j = nine[1] /\ m = nine[2]
      OBVIOUS
    <3>5. PartDecapsulate(H.classical, p, one, j) = c
      <4>1. PartDecapsulate("X25519KEM", p, one, j) = X25519(p.draw, one)
        BY PartOpens, Zenon
      <4>2. QED
        BY <1>3, <3>1, <3>4, <4>1, Zenon
    <3>6. PartDecapsulate(H.pq, s, rest, m) = q
      <4>1. PartDecapsulate(R, s, rest, m) = RealDecapsulate(s, rest)
        BY PartOpens, Zenon
      <4>2. QED
        BY <1>2, <3>1, <3>4, <4>1, Zenon DEF RealDecapsulate
    <3> HIDE DEF one, rest, c, q
    <3>7. QED
      BY <1>6, <3>1, <3>2, <3>3, <3>4, <3>5, <3>6, Zenon DEF HybridMLKEMDecapsulate
  <2>3. PICK r1 \in BOOLEAN : r1 <=> Canonical(one) = head /\ o = k
    OBVIOUS
  <2>4. PICK r2 \in BOOLEAN : r2 <=> rest = tail /\ oo = kk
    OBVIOUS
  <2> HIDE DEF one, rest
  <2>5. Yields(c, DHKinds, {f}, r1)
    <3>1. Yields(c, DHKinds, DH(e, k), Canonical(one) = head /\ o = k)
      BY <1>1, <1>5, <2>1, X25519Opens, Zenon
    <3> HIDE DEF c, head
    <3>2. Yields(c, DHKinds, {f}, Canonical(one) = head /\ o = k)
      BY <1>14, <3>1, Zenon
    <3>3. QED
      BY <2>3, <2>4, <3>2, Zenon DEF Yields
  <2>6. Yields(q, KEMKinds, {g}, r2)
    <3>1. Yields(q, KEMKinds, Term(R, kk, ee), rest = tail /\ oo = kk)
      BY <2>1, MLKEMOpens, Zenon
    <3> HIDE DEF q, tail
    <3>2. Yields(q, KEMKinds, {g}, rest = tail /\ oo = kk)
      BY <1>14, <3>1, Zenon
    <3>3. QED
      BY <2>3, <2>4, <3>2, Zenon DEF Yields
  <2>7. f.kind \in DHKinds /\ g.kind \in KEMKinds
    BY <1>14 DEF DHKinds, KEMKinds
  <2> HIDE DEF c, q
  <2>8. opened.end = "ok" /\ opened.ss = XOR({f}, {g}) <=> r1 /\ r2
    <3>1. Succeeds(OpenedBy(c, q), XOR({f}, {g}), r1 /\ r2)
      BY <2>5, <2>6, <2>7, BothYield, Zenon
    <3>2. opened = OpenedBy(c, q)
      BY <2>2, Zenon DEF OpenedBy
    <3> HIDE DEF opened
    <3>3. QED
      BY <3>1, <3>2, Zenon DEF Succeeds
  <2> HIDE DEF opened, sealed, head, tail
  <2>9. sealed.ss = XOR({f}, {g})
    BY <1>11, <1>14, Zenon
  <2>10. Canonical(ct) = sealed.ct <=> Canonical(one) = head /\ rest = tail
    BY <1>11, <2>1, Zenon
  <2>11. opened.ss = sealed.ss <=> opened.ss = XOR({f}, {g})
    BY <2>9, Zenon
  <2>12. r1 /\ r2 <=> Canonical(ct) = sealed.ct /\ other.sk = made.sk
    BY <1>12, <2>3, <2>4, <2>10, Zenon
  <2>13. QED
    BY <2>8, <2>11, <2>12, Zenon
<1>17. QED
  BY <1>15, <1>16, LenProperties

\* The stubs and HybridKEM: what Decapsulate returns has nothing to do with what
\* was sealed.
LEMMA PlaceholdersNeverAgree ==
  ASSUME NEW kem \in Implementations \ Working, NEW maker, NEW key, NEW opener,
         NEW seal, NEW ct
  PROVE  Agreement(kem, maker, key, opener, seal, ct)
<1> DEFINE pk == GenerateKeyPair(maker, key).pk
           sk == GenerateKeyPair(maker, opener).sk
           sealed == Encapsulate(kem, pk, seal)
           opened == Decapsulate(kem, sk, ct, <<9, 9>>)
<1> SUFFICES ASSUME sealed.end = "ok", opened.ss = sealed.ss PROVE FALSE
  BY Zenon DEF Agreement
<1>1. PICK nine : nine = <<9, 9>>
  OBVIOUS
<1>2. CASE kem = Simple("MLKEM768Type")
  <2>1. /\ sealed = PartEncapsulate("MLKEM768Type", pk, seal[1])
        /\ opened = PartDecapsulate("MLKEM768Type", sk, ct, nine[1])
    BY <1>1, <1>2, Dispatch, TypesDiffer, Zenon
  <2>2. /\ PartEncapsulate("MLKEM768Type", pk, seal[1]) = StubEncapsulate("MLKEM768Type", seal[1])
        /\ PartDecapsulate("MLKEM768Type", sk, ct, nine[1]) = StubDecapsulate(nine[1])
    BY TypesDiffer, Zenon DEF PartEncapsulate, PartDecapsulate
  <2>3. opened.ss = sealed.ss
    OBVIOUS
  <2> HIDE DEF sealed, opened, pk, sk
  <2>4. /\ sealed = Sealed(Noise(seal[1], Size("MLKEM768Type")), Term("drawn", 0, seal[1]))
        /\ opened = Opened(Term("drawn", 1, nine[1]))
    BY <2>1, <2>2, Zenon DEF StubEncapsulate, StubDecapsulate
  <2>5. Term("drawn", 1, nine[1]) = Term("drawn", 0, seal[1])
    <3>1. PICK x, y, z : /\ x = Noise(seal[1], Size("MLKEM768Type"))
                         /\ y = Term("drawn", 0, seal[1]) /\ z = Term("drawn", 1, nine[1])
      OBVIOUS
    <3>2. sealed.ss = y /\ opened.ss = z
      <4>1. sealed = Sealed(x, y) /\ opened = Opened(z)
        BY <2>4, <3>1, Zenon
      <4> HIDE DEF sealed, opened
      <4>2. \A s, t : s = Sealed(x, y) /\ t = Opened(z) => s.ss = y /\ t.ss = z
        BY DEF Sealed, Opened
      <4>3. QED
        BY <4>1, <4>2, Zenon
    <3>3. QED
      BY <2>3, <3>1, <3>2, Zenon
  <2>6. QED
    BY <2>5, TermsDiffer
<1>3. ASSUME NEW a, NEW b, kem = NewHybridKEM(a, b) PROVE FALSE
  <2>1. kem.type = "HybridKEM"
    BY <1>3 DEF NewHybridKEM
  <2>2. sealed = HybridEncapsulate(kem, pk, seal) /\ opened = HybridDecapsulate
    BY <2>1, Zenon DEF Encapsulate, Decapsulate
  <2>3. sealed.end = "ok" /\ opened.ss = sealed.ss
    OBVIOUS
  <2> HIDE DEF sealed, opened, pk, sk
  <2>4. sealed.ss = Term("kdf", seal[1], seal[2])
    <3>1. PICK u, v, all : /\ HybridEncapsulate(kem, pk, seal) \in {Panic, Error, Both(u, v, all)}
                           /\ all.ss = Term("kdf", seal[1], seal[2])
      <4> DEFINE n == Size(kem.classical)
                 Part(from, to) == PublicKey(SubSeq(pk.bytes, from, to))
                 c == PartEncapsulate(kem.classical, Part(1, n), seal[1])
                 q == PartEncapsulate(kem.pq, Part(n + 1, Len(pk.bytes)), seal[2])
                 whole == Sealed(c.ct \o q.ct, Term("kdf", seal[1], seal[2]))
      <4>1. HybridEncapsulate(kem, pk, seal) \in {Panic, Error, Both(c, q, whole)}
        BY Zenon DEF HybridEncapsulate
      <4>2. whole.ss = Term("kdf", seal[1], seal[2])
        <5> HIDE DEF c, q
        <5>1. PICK x, y : x = c.ct \o q.ct /\ y = Term("kdf", seal[1], seal[2])
          OBVIOUS
        <5>2. whole = Sealed(x, y)
          BY <5>1, Zenon
        <5>3. Sealed(x, y).ss = y
          BY DEF Sealed
        <5> HIDE DEF whole
        <5>4. QED
          BY <5>1, <5>2, <5>3, Zenon
      <4> HIDE DEF c, q, whole
      <4>3. QED
        BY <4>1, <4>2
    <3>2. sealed = Both(u, v, all)
      BY <2>2, <2>3, <3>1, Ends, Zenon
    <3>3. sealed = all
      BY <2>3, <3>2, BothOk, Zenon
    <3>4. QED
      BY <3>1, <3>3, Zenon
  <2>5. opened.ss = {}
    BY <2>2, Ends, Zenon DEF HybridDecapsulate
  <2>6. Term("kdf", seal[1], seal[2]) # {}
    BY DEF Term
  <2>7. QED
    BY <2>3, <2>4, <2>5, <2>6, Zenon
<1>4. kem = Simple("MLKEM768Type") \/ \E a, b : kem = NewHybridKEM(a, b)
  BY Zenon DEF Implementations
<1>5. QED
  BY <1>2, <1>3, <1>4, Zenon

\* HybridMLKEM, RealMLKEM768, RealMLKEM1024 and X25519KEM, for all draws and
\* whatever arrives: the sender's secret is opened by the private key of the key
\* it was sealed to, from the sender's ciphertext with its X25519 point in any
\* encoding, and not in any other way.  With the other KEMs it is never opened.
THEOREM OnlyTheHolderOpens ==
  \A kem \in Implementations, maker \in Implementations, key, opener, seal \in Nat \X Nat, ct \in Seq(Unit) :
    Fresh(key, opener, seal) => Agreement(kem, maker, key, opener, seal, ct)
<1> SUFFICES ASSUME NEW kem \in Implementations, NEW maker \in Implementations, NEW key \in Nat \X Nat,
                    NEW opener \in Nat \X Nat, NEW seal \in Nat \X Nat, NEW ct \in Seq(Unit),
                    Fresh(key, opener, seal)
             PROVE  Agreement(kem, maker, key, opener, seal, ct)
  BY Zenon
<1>1. CASE kem = Simple("X25519KEM")
  BY <1>1, X25519KEMAgrees
<1>2. ASSUME NEW t \in RealTypes, kem = Simple(t)
      PROVE  Agreement(kem, maker, key, opener, seal, ct)
  BY <1>2, RealMLKEMAgrees
<1>3. CASE kem = NewHybridMLKEM
  BY <1>3, HybridMLKEMAgrees
<1>4. \/ kem \in Implementations \ Working
      \/ kem = Simple("X25519KEM") \/ kem = NewHybridMLKEM
      \/ \E t \in RealTypes : kem = Simple(t)
  BY TypesDiffer, Zenon DEF Working
<1>5. CASE kem \in Implementations \ Working
  BY <1>5, PlaceholdersNeverAgree
<1>6. QED
  BY <1>1, <1>2, <1>3, <1>4, <1>5, Zenon

-----------------------------------------------------------------------------
(* The exchanges of the run *)

\* What is sealed is units, and there is one.
IsCiphertext(ct) == ct \in Seq(Unit) /\ Len(ct) \in Nat \ {0}

\* The ciphertexts of the KEMs.
LEMMA CiphertextUnits ==
  ASSUME NEW k \in Nat, NEW kk \in Nat, NEW e \in Nat, NEW ee \in Nat, NEW t \in RealTypes
  PROVE  /\ IsCiphertext(X25519Public(e)) /\ IsCiphertext(Units("ct", k, e, Size(t)))
         /\ IsCiphertext(X25519Public(e) \o Units("ct", kk, ee, Size(t)))
<1>1. PICK n \in Nat \ {0} : n = Size(t)
  BY CtUnits, Zenon
<1>2. \A a, b \in Nat : Units("ct", a, b, n) \in Seq(Unit) /\ Len(Units("ct", a, b, n)) = n
  BY <1>1, CtUnits, Zenon DEF AreUnits
<1>3. PICK u \in Seq(Unit) : u = X25519Public(e) /\ Len(u) = 1
  BY X25519Keys
<1>4. PICK v \in Seq(Unit) : v = Units("ct", kk, ee, Size(t)) /\ Len(v) = n
  BY <1>1, <1>2, Zenon
<1>5. PICK w \in Seq(Unit) : w = Units("ct", k, e, Size(t)) /\ Len(w) = n
  BY <1>1, <1>2, Zenon
<1>6. u \o v \in Seq(Unit) /\ Len(u \o v) = Len(u) + Len(v)
  BY ConcatProperties
<1>7. IsCiphertext(u) /\ IsCiphertext(w) /\ IsCiphertext(u \o v)
  BY <1>3, <1>4, <1>5, <1>6 DEF IsCiphertext
<1>8. QED
  BY <1>3, <1>4, <1>5, <1>7, Zenon

\* When something was sealed to a key, it and what is sealed with other draws
\* that did not fail are ciphertexts.
LEMMA SealedUnits ==
  ASSUME NEW kem \in Working, NEW maker \in Implementations, NEW key \in Nat \X Nat,
         NEW seal \in Nat \X Nat,
         NEW made, made = GenerateKeyPair(maker, key), made.end = "ok",
         Encapsulate(kem, made.pk, seal).end = "ok",
         NEW d \in Nat \X Nat, d = seal \/ (d[1] # 0 /\ d[2] # 0)
  PROVE  IsCiphertext(Encapsulate(kem, made.pk, d).ct)
<1> DEFINE sealed == Encapsulate(kem, made.pk, d)
<1>1. PICK k, kk, e, ee \in Nat : k = key[1] /\ kk = key[2] /\ e = d[1] /\ ee = d[2]
  OBVIOUS
<1>2. d = seal => sealed.end = "ok"
  BY Zenon
<1>3. CASE kem = Simple("X25519KEM")
  <2>1. X25519SealsTo(made.pk, k)
    BY <1>1, <1>3, X25519KEMSeals
  <2>2. sealed = IF e = 0 THEN Error ELSE Sealed(X25519Public(e), DH(e, k))
    BY <1>1, <1>3, <2>1, Zenon DEF X25519SealsTo
  <2> HIDE DEF sealed
  <2>3. sealed = Sealed(X25519Public(e), DH(e, k))
    BY <1>1, <1>2, <2>2, Ends, Zenon
  <2>4. sealed.ct = X25519Public(e)
    BY <2>3 DEF Sealed
  <2>5. PICK t \in RealTypes : TRUE
    BY DEF RealTypes
  <2>6. IsCiphertext(X25519Public(e))
    BY CiphertextUnits
  <2>7. QED
    BY <2>4, <2>6, Zenon DEF sealed
<1>4. ASSUME NEW r \in RealTypes, kem = Simple(r) PROVE IsCiphertext(sealed.ct)
  <2>1. PICK t \in RealTypes : RealSealsTo(r, t, made.pk, k)
    BY <1>1, <1>4, RealMLKEMSeals
  <2>2. sealed = IF e = 0 THEN Error
                 ELSE Sealed(Units("ct", k, e, Size(t)), Term(t, k, e))
    BY <1>1, <1>4, <2>1, Zenon DEF RealSealsTo
  <2> HIDE DEF sealed
  <2>3. sealed = Sealed(Units("ct", k, e, Size(t)), Term(t, k, e))
    BY <1>1, <1>2, <2>2, Ends, Zenon
  <2>4. sealed.ct = Units("ct", k, e, Size(t))
    BY <2>3 DEF Sealed
  <2>5. IsCiphertext(Units("ct", k, e, Size(t)))
    BY CiphertextUnits
  <2>6. QED
    BY <2>4, <2>5, Zenon
<1>5. CASE kem = NewHybridMLKEM
  <2>1. PICK R \in RealTypes : R = "RealMLKEM768"
    BY DEF RealTypes
  <2>2. HybridSealsTo(R, made.pk, k, kk)
    <3>1. HybridSealsTo("RealMLKEM768", made.pk, key[1], key[2])
      BY <1>5, HybridMLKEMSeals
    <3>2. QED
      BY <1>1, <2>1, <3>1, Zenon
  <2> DEFINE both == X25519Public(e) \o Units("ct", kk, ee, Size(R))
             ss == XOR(DH(e, k), Term(R, kk, ee))
  <2>3. sealed = IF e = 0 \/ ee = 0 THEN Error ELSE Sealed(both, ss)
    BY <1>1, <1>5, <2>2, Zenon DEF HybridSealsTo
  <2>4. IsCiphertext(both)
    BY CiphertextUnits
  <2> HIDE DEF sealed, both, ss
  <2>5. sealed = Sealed(both, ss)
    BY <1>1, <1>2, <2>3, Ends, Zenon
  <2>6. sealed.ct = both
    BY <2>5 DEF Sealed
  <2>7. QED
    BY <2>4, <2>6, Zenon DEF sealed
<1>6. \/ kem = Simple("X25519KEM") \/ kem = NewHybridMLKEM
      \/ \E t \in RealTypes : kem = Simple(t)
  BY TypesDiffer, Zenon DEF Working
<1>7. QED
  BY <1>3, <1>4, <1>5, <1>6, Zenon

\* What arrives is units, whatever becomes of a ciphertext on its way.
LEMMA ChangedUnits ==
  ASSUME NEW c, IsCiphertext(c), NEW b, IsCiphertext(b), NEW how \in Changes
  PROVE  Change(c, b, how) \in Seq(Unit)
<1>0. /\ c \in Seq(Unit) /\ b \in Seq(Unit)
      /\ Len(c) \in Nat \ {0} /\ Len(b) \in Nat \ {0}
  BY DEF IsCiphertext
<1>1. PICK n \in Seq(Unit) : n = Noise(9, 1)
  <2>1. PICK x \in Nat, y \in Nat \ {0} : x = 9 /\ y = 1
    OBVIOUS
  <2>2. Noise(x, y) \in Seq(Unit)
    BY KeyBytes, Zenon
  <2>3. QED
    BY <2>1, <2>2, Zenon
<1>2. PICK f \in Seq(Unit) : f = SubSeq(c, 1, Len(c) - 1)
  <2>1. \A i \in 1..Len(c) - 1 : c[i] \in Unit
    BY <1>0, ElementOfSeq
  <2>2. PICK m \in Nat : m = Len(c) - 1
    BY <1>0
  <2>3. SubSeq(c, 1, m) \in Seq(Unit)
    BY <1>0, <2>1, <2>2, SubSeqProperties
  <2>4. QED
    BY <2>2, <2>3, Zenon
<1>3. PICK t, u \in Seq(Unit) : t = Tail(c) /\ u = Tail(b)
  <2>1. Tail(c) \in Seq(Unit)
    BY <1>0, HeadTailProperties
  <2>2. Tail(b) \in Seq(Unit)
    BY <1>0, HeadTailProperties
  <2>3. QED
    BY <2>1, <2>2, Zenon
<1>4. PICK h \in Seq(Unit) : h = <<Head(c)>>
  <2>1. Head(c) \in Unit
    BY <1>0
  <2>2. \A x \in Unit : <<x>> \in Seq(Unit)
    OBVIOUS
  <2>3. QED
    BY <2>1, <2>2, Zenon
<1>5. PICK g \in Seq(Unit) : g = <<[Head(c) EXCEPT !.draw = @ + 9]>>
  <2>1. PICK v \in Unit : v = Head(c)
    BY <1>0
  <2>2. [v EXCEPT !.draw = @ + 9] \in Unit
    <3>1. PICK m \in Nat : m = v.draw + 9
      BY DEF Unit
    <3>2. [v EXCEPT !.draw = m] \in Unit
      BY DEF Unit
    <3>3. QED
      BY <3>1, <3>2, Zenon
  <2>3. \A x \in Unit : <<x>> \in Seq(Unit)
    OBVIOUS
  <2>4. QED
    BY <2>1, <2>2, <2>3, Zenon
<1>6. \A x, y \in Seq(Unit) : x \o y \in Seq(Unit)
  BY ConcatProperties
<1>7. /\ c \o n \in Seq(Unit) /\ n \o t \in Seq(Unit) /\ g \o t \in Seq(Unit)
      /\ f \o n \in Seq(Unit) /\ h \o u \in Seq(Unit) /\ <<>> \in Seq(Unit)
  BY <1>0, <1>6
<1>8. QED
  BY <1>0, <1>1, <1>2, <1>3, <1>4, <1>5, <1>7, Zenon DEF Change, Changes

\* The KEMs of crypto.go and mlkem_integration.go: in every exchange that is
\* taken, the sender's secret is opened by the holder of the private key from the
\* ciphertext with its point in any encoding, and not otherwise.
THEOREM SecretsAreAgreed == Spec => []KEMAgreement
<1>1. ASSUME NEW x \in Exchanges
      PROVE  Agreement(x.kem, x.maker, x.key, x.opener, x.seal, Arriving(x))
  <2> DEFINE made == GenerateKeyPair(x.maker, x.key)
             sealed == Encapsulate(x.kem, made.pk, x.seal)
             resealed == Encapsulate(x.kem, made.pk, <<7, 8>>)
  <2>1. x.kem \in Implementations /\ x.maker \in Implementations /\ x.change \in Changes
    BY DEF Exchanges
  <2>2. /\ x.key \in {<<1, 2>>, <<0, 2>>, <<1, 0>>}
        /\ x.opener \in {<<1, 2>>, <<3, 2>>, <<1, 4>>}
        /\ x.seal \in {<<5, 6>>, <<1, 2>>, <<0, 6>>, <<5, 0>>}
    BY DEF Exchanges
  <2>3. x.key \in Nat \X Nat /\ x.opener \in Nat \X Nat /\ x.seal \in Nat \X Nat
    BY <2>2
  <2>4. Fresh(x.key, x.opener, x.seal)
    BY <2>2 DEF Fresh
  <2>5. CASE made.end = "ok" /\ sealed.end = "ok" /\ x.kem \in Working
    <3>1. PICK m : m = made
      OBVIOUS
    <3>2. PICK d \in Nat \X Nat : d = <<7, 8>> /\ d[1] # 0 /\ d[2] # 0
      <4>1. <<7, 8>> \in Nat \X Nat
        OBVIOUS
      <4>2. PICK d \in Nat \X Nat : d = <<7, 8>>
        BY <4>1, Zenon
      <4>3. d[1] = 7 /\ d[2] = 8
        BY <4>2
      <4>4. QED
        BY <4>2, <4>3
    <3>3. PICK kem \in Working, maker \in Implementations, key \in Nat \X Nat, seal \in Nat \X Nat :
            kem = x.kem /\ maker = x.maker /\ key = x.key /\ seal = x.seal
      BY <2>1, <2>3, <2>5, Zenon
    <3>4. /\ m = GenerateKeyPair(maker, key) /\ m.end = "ok"
          /\ Encapsulate(kem, m.pk, seal).end = "ok"
      BY <2>5, <3>1, <3>3, Zenon
    <3>5. IsCiphertext(Encapsulate(kem, m.pk, seal).ct)
      BY <3>4, SealedUnits
    <3>6. IsCiphertext(Encapsulate(kem, m.pk, d).ct)
      BY <3>2, <3>4, SealedUnits
    <3>7. IsCiphertext(sealed.ct) /\ IsCiphertext(resealed.ct)
      BY <3>1, <3>2, <3>3, <3>5, <3>6, Zenon
    <3>8. Arriving(x) = Change(sealed.ct, resealed.ct, x.change)
      BY Zenon DEF Arriving
    <3> HIDE DEF made, sealed, resealed
    <3>9. Arriving(x) \in Seq(Unit)
      BY <2>1, <3>7, <3>8, ChangedUnits, Zenon
    <3>10. QED
      BY <2>1, <2>3, <2>4, <3>9, OnlyTheHolderOpens, Zenon
  <2>6. CASE ~(made.end = "ok" /\ sealed.end = "ok")
    BY <2>6, Zenon DEF Agreement
  <2>7. CASE x.kem \notin Working
    BY <2>1, <2>7, PlaceholdersNeverAgree
  <2>8. QED
    BY <2>5, <2>6, <2>7
<1>2. Taken => KEMAgreement
  BY <1>1, TaggedInputs, Zenon DEF KEMAgreement
<1>3. QED
  BY <1>2, OnlyInputs, PTL
=============================================================================
