-------------------------- MODULE WireFormatProofs --------------------------
(***************************************************************************)
(* The host's structs and the RTL's pack and unpack agree on every field.  *)
(***************************************************************************)
EXTENDS WireFormat, TLAPS

\* What the recursion of Starts says, once some function satisfies it.
LEMMA StartsFacts ==
  ASSUME NEW fields, NEW g,
         g = [i \in 1 .. Len(fields) |->
                IF i = 1 THEN 0 ELSE g[i - 1] + fields[i - 1][2]]
  PROVE  Starts(fields) = [i \in 1 .. Len(fields) |->
           IF i = 1 THEN 0 ELSE Starts(fields)[i - 1] + fields[i - 1][2]]
<1> DEFINE lo == CHOOSE h : h = [i \in 1 .. Len(fields) |->
                   IF i = 1 THEN 0 ELSE h[i - 1] + fields[i - 1][2]]
<1>1. lo = [i \in 1 .. Len(fields) |->
              IF i = 1 THEN 0 ELSE lo[i - 1] + fields[i - 1][2]]
  BY Zenon
<1>2. Starts(fields) = lo
  BY Zenon DEF Starts
<1> QED  BY <1>1, <1>2, Zenon

\* Field number i is where Placed puts it.
LEMMA PlacedAt ==
  ASSUME NEW fields, NEW i \in 1 .. Len(fields),
         NEW number, \A k \in 1 .. Len(fields) : number[fields[k][1]] = k
  PROVE  Placed(fields)[fields[i][1]]
           = <<Starts(fields)[i] + fields[i][2] - 1, Starts(fields)[i]>>
<1> DEFINE f == fields[i][1]
           n == CHOOSE k \in 1 .. Len(fields) : fields[k][1] = f
<1>1. n \in 1 .. Len(fields) /\ fields[n][1] = f
  BY Zenon
<1>2. n = i
  BY <1>1
<1>3. f \in {fields[k][1] : k \in 1 .. Len(fields)}
  BY Zenon
<1>4. Placed(fields)[f] = <<Starts(fields)[n] + fields[n][2] - 1, Starts(fields)[n]>>
  BY <1>3, Zenon DEF Placed
<1> QED  BY <1>2, <1>4, Zenon

\* The indices of nine fields.
LEMMA NineCases ==
  ASSUME NEW n \in {8, 9}, NEW i \in 1 .. n
  PROVE  i \in {1, 2, 3, 4, 5, 6, 7, 8, 9} /\ (i = 9 => n = 9)
OBVIOUS

\* The starts of the first eight of at most nine fields.
LEMMA StartsOfEight ==
  ASSUME NEW fields, Len(fields) \in 8 .. 9,
         \A i \in 1 .. Len(fields) : fields[i][2] \in Nat
  PROVE  /\ Starts(fields)[1] = 0
         /\ \A i \in 2 .. 8 :
              Starts(fields)[i] = Starts(fields)[i - 1] + fields[i - 1][2]
<1> DEFINE w(i) == fields[i][2]
           s1 == 0
           s2 == s1 + w(1)
           s3 == s2 + w(2)
           s4 == s3 + w(3)
           s5 == s4 + w(4)
           s6 == s5 + w(5)
           s7 == s6 + w(6)
           s8 == s7 + w(7)
           s9 == s8 + w(8)
           g == [i \in 1 .. Len(fields) |->
                   CASE i = 1 -> s1 [] i = 2 -> s2 [] i = 3 -> s3 [] i = 4 -> s4
                     [] i = 5 -> s5 [] i = 6 -> s6 [] i = 7 -> s7 [] i = 8 -> s8
                     [] OTHER -> s9]
<1>1. PICK n \in {8, 9} : n = Len(fields)
  OBVIOUS
<1>2. /\ g[1] = s1 /\ g[2] = s2 /\ g[3] = s3 /\ g[4] = s4
      /\ g[5] = s5 /\ g[6] = s6 /\ g[7] = s7 /\ g[8] = s8
      /\ n = 9 => g[9] = s9
  <2> HIDE DEF s1, s2, s3, s4, s5, s6, s7, s8, s9
  <2> QED  BY <1>1
<1>3. g = [i \in 1 .. n |-> g[i]]
  BY <1>1
<1> HIDE DEF g
<1>4. /\ g[1] = 0
      /\ g[2] = g[1] + w(1) /\ g[3] = g[2] + w(2) /\ g[4] = g[3] + w(3)
      /\ g[5] = g[4] + w(4) /\ g[6] = g[5] + w(5) /\ g[7] = g[6] + w(6)
      /\ g[8] = g[7] + w(7)
      /\ n = 9 => g[9] = g[8] + w(8)
  BY <1>2
<1> HIDE DEF w
<1>5. ASSUME NEW i \in 1 .. n
      PROVE  g[i] = IF i = 1 THEN 0 ELSE g[i - 1] + w(i - 1)
  <2>1. i \in {1, 2, 3, 4, 5, 6, 7, 8, 9} /\ (i = 9 => n = 9)
    BY NineCases
  <2>2. CASE i = 1
    BY <1>4, <2>2
  <2>3. CASE i = 2
    <3>1. i - 1 = 1 /\ i # 1
      BY <2>3
    <3> QED  BY <1>4, <2>3, <3>1
  <2>4. CASE i = 3
    <3>1. i - 1 = 2 /\ i # 1
      BY <2>4
    <3> QED  BY <1>4, <2>4, <3>1
  <2>5. CASE i = 4
    <3>1. i - 1 = 3 /\ i # 1
      BY <2>5
    <3> QED  BY <1>4, <2>5, <3>1
  <2>6. CASE i = 5
    <3>1. i - 1 = 4 /\ i # 1
      BY <2>6
    <3> QED  BY <1>4, <2>6, <3>1
  <2>7. CASE i = 6
    <3>1. i - 1 = 5 /\ i # 1
      BY <2>7
    <3> QED  BY <1>4, <2>7, <3>1
  <2>8. CASE i = 7
    <3>1. i - 1 = 6 /\ i # 1
      BY <2>8
    <3> QED  BY <1>4, <2>8, <3>1
  <2>9. CASE i = 8
    <3>1. i - 1 = 7 /\ i # 1
      BY <2>9
    <3> QED  BY <1>4, <2>9, <3>1
  <2>10. CASE i = 9
    <3>1. i - 1 = 8 /\ i # 1
      BY <2>10
    <3> QED  BY <1>4, <2>1, <2>10, <3>1
  <2> QED  BY <2>1, <2>2, <2>3, <2>4, <2>5, <2>6, <2>7, <2>8, <2>9, <2>10
<1>6. g = [i \in 1 .. Len(fields) |->
             IF i = 1 THEN 0 ELSE g[i - 1] + fields[i - 1][2]]
  BY <1>1, <1>3, <1>5 DEF w
<1>7. Starts(fields) = [i \in 1 .. Len(fields) |->
        IF i = 1 THEN 0 ELSE Starts(fields)[i - 1] + fields[i - 1][2]]
  BY <1>6, StartsFacts
<1> QED  BY <1>1, <1>7

\* TLMessageA, and what pack makes of an A beat.
LEMMA BitsInA ==
  ASSUME NEW fields,
         fields = Struct["A"] \/ fields = Concatenation["A"]
  PROVE  /\ Placed(fields)["opcode"] = <<7, 0>>
         /\ Placed(fields)["param"] = <<15, 8>>
         /\ Placed(fields)["size"] = <<23, 16>>
         /\ Placed(fields)["corrupt"] = <<31, 24>>
         /\ Placed(fields)["source"] = <<63, 32>>
         /\ Placed(fields)["address"] = <<127, 64>>
         /\ Placed(fields)["mask"] = <<159, 128>>
         /\ Placed(fields)["data"] = <<415, 160>>
<1>1. PICK n \in {8, 9} : n = Len(fields)
  BY DEF Struct, Concatenation
<1>2. /\ fields[1][1] = "opcode" /\ fields[1][2] = 8
      /\ fields[2][1] = "param" /\ fields[2][2] = 8
      /\ fields[3][1] = "size" /\ fields[3][2] = 8
      /\ fields[4][1] = "corrupt" /\ fields[4][2] = 8
      /\ fields[5][1] = "source" /\ fields[5][2] = 32
      /\ fields[6][1] = "address" /\ fields[6][2] = 64
      /\ fields[7][1] = "mask" /\ fields[7][2] = 32
      /\ fields[8][1] = "data" /\ fields[8][2] = 256
  BY DEF Struct, Concatenation
<1>3. n = 9 => fields[9][1] = "reserved" /\ fields[9][2] = 56
  <2>1. CASE fields = Struct["A"]
    BY <1>1, <2>1 DEF Struct
  <2>2. CASE fields = Concatenation["A"]
    <3>1. Len(fields) = 8
      BY <2>2 DEF Concatenation
    <3> QED  BY <1>1, <3>1
  <2> QED  BY <2>1, <2>2
<1> DEFINE number == [opcode |-> 1, param |-> 2, size |-> 3,
                      corrupt |-> 4, source |-> 5, address |-> 6,
                      mask |-> 7, data |-> 8, reserved |-> 9]
<1>4. ASSUME NEW i \in 1 .. n
      PROVE  fields[i][2] \in Nat /\ number[fields[i][1]] = i
  <2>1. i \in {1, 2, 3, 4, 5, 6, 7, 8, 9} /\ (i = 9 => n = 9)
    BY NineCases
  <2>2. CASE i = 1
    BY <1>2, <2>1, <2>2
  <2>3. CASE i = 2
    BY <1>2, <2>1, <2>3
  <2>4. CASE i = 3
    BY <1>2, <2>1, <2>4
  <2>5. CASE i = 4
    BY <1>2, <2>1, <2>5
  <2>6. CASE i = 5
    BY <1>2, <2>1, <2>6
  <2>7. CASE i = 6
    BY <1>2, <2>1, <2>7
  <2>8. CASE i = 7
    BY <1>2, <2>1, <2>8
  <2>9. CASE i = 8
    BY <1>2, <2>1, <2>9
  <2>10. CASE i = 9
    BY <1>3, <2>1, <2>10
  <2> QED  BY <2>1, <2>2, <2>3, <2>4, <2>5, <2>6, <2>7, <2>8, <2>9, <2>10
<1> HIDE DEF number
<1>5. \A i \in 1 .. Len(fields) : fields[i][2] \in Nat
  BY <1>1, <1>4
<1>6. \A i \in 1 .. Len(fields) : number[fields[i][1]] = i
  BY <1>1, <1>4
<1>7. ASSUME NEW i \in 1 .. Len(fields)
      PROVE  Placed(fields)[fields[i][1]]
               = <<Starts(fields)[i] + fields[i][2] - 1, Starts(fields)[i]>>
  BY <1>6, PlacedAt
<1>8. /\ Starts(fields)[1] = 0
      /\ \A i \in 2 .. 8 :
           Starts(fields)[i] = Starts(fields)[i - 1] + fields[i - 1][2]
  <2>1. Len(fields) \in 8 .. 9
    BY <1>1
  <2> QED  BY <1>5, <2>1, StartsOfEight
<1>9. Starts(fields)[1] = 0
  BY <1>2, <1>8
<1>10. Starts(fields)[2] = 8
  BY <1>2, <1>8, <1>9
<1>11. Starts(fields)[3] = 16
  BY <1>2, <1>8, <1>10
<1>12. Starts(fields)[4] = 24
  BY <1>2, <1>8, <1>11
<1>13. Starts(fields)[5] = 32
  BY <1>2, <1>8, <1>12
<1>14. Starts(fields)[6] = 64
  BY <1>2, <1>8, <1>13
<1>15. Starts(fields)[7] = 128
  BY <1>2, <1>8, <1>14
<1>16. Starts(fields)[8] = 160
  BY <1>2, <1>8, <1>15
<1>17. Placed(fields)["opcode"] = <<7, 0>>
  <2>1. 1 \in 1 .. Len(fields) /\ 0 + 8 - 1 = 7
    BY <1>1
  <2>2. Placed(fields)[fields[1][1]]
          = <<Starts(fields)[1] + fields[1][2] - 1, Starts(fields)[1]>>
    BY <1>7, <2>1
  <2> QED  BY <1>2, <1>9, <2>1, <2>2
<1>18. Placed(fields)["param"] = <<15, 8>>
  <2>1. 2 \in 1 .. Len(fields) /\ 8 + 8 - 1 = 15
    BY <1>1
  <2>2. Placed(fields)[fields[2][1]]
          = <<Starts(fields)[2] + fields[2][2] - 1, Starts(fields)[2]>>
    BY <1>7, <2>1
  <2> QED  BY <1>2, <1>10, <2>1, <2>2
<1>19. Placed(fields)["size"] = <<23, 16>>
  <2>1. 3 \in 1 .. Len(fields) /\ 16 + 8 - 1 = 23
    BY <1>1
  <2>2. Placed(fields)[fields[3][1]]
          = <<Starts(fields)[3] + fields[3][2] - 1, Starts(fields)[3]>>
    BY <1>7, <2>1
  <2> QED  BY <1>2, <1>11, <2>1, <2>2
<1>20. Placed(fields)["corrupt"] = <<31, 24>>
  <2>1. 4 \in 1 .. Len(fields) /\ 24 + 8 - 1 = 31
    BY <1>1
  <2>2. Placed(fields)[fields[4][1]]
          = <<Starts(fields)[4] + fields[4][2] - 1, Starts(fields)[4]>>
    BY <1>7, <2>1
  <2> QED  BY <1>2, <1>12, <2>1, <2>2
<1>21. Placed(fields)["source"] = <<63, 32>>
  <2>1. 5 \in 1 .. Len(fields) /\ 32 + 32 - 1 = 63
    BY <1>1
  <2>2. Placed(fields)[fields[5][1]]
          = <<Starts(fields)[5] + fields[5][2] - 1, Starts(fields)[5]>>
    BY <1>7, <2>1
  <2> QED  BY <1>2, <1>13, <2>1, <2>2
<1>22. Placed(fields)["address"] = <<127, 64>>
  <2>1. 6 \in 1 .. Len(fields) /\ 64 + 64 - 1 = 127
    BY <1>1
  <2>2. Placed(fields)[fields[6][1]]
          = <<Starts(fields)[6] + fields[6][2] - 1, Starts(fields)[6]>>
    BY <1>7, <2>1
  <2> QED  BY <1>2, <1>14, <2>1, <2>2
<1>23. Placed(fields)["mask"] = <<159, 128>>
  <2>1. 7 \in 1 .. Len(fields) /\ 128 + 32 - 1 = 159
    BY <1>1
  <2>2. Placed(fields)[fields[7][1]]
          = <<Starts(fields)[7] + fields[7][2] - 1, Starts(fields)[7]>>
    BY <1>7, <2>1
  <2> QED  BY <1>2, <1>15, <2>1, <2>2
<1>24. Placed(fields)["data"] = <<415, 160>>
  <2>1. 8 \in 1 .. Len(fields) /\ 160 + 256 - 1 = 415
    BY <1>1
  <2>2. Placed(fields)[fields[8][1]]
          = <<Starts(fields)[8] + fields[8][2] - 1, Starts(fields)[8]>>
    BY <1>7, <2>1
  <2> QED  BY <1>2, <1>16, <2>1, <2>2
<1> QED
  BY <1>17, <1>18, <1>19, <1>20, <1>21, <1>22, <1>23, <1>24

\* TLMessageD, and what pack makes of a D beat.
LEMMA BitsInD ==
  ASSUME NEW fields,
         fields = Struct["D"] \/ fields = Concatenation["D"]
  PROVE  /\ Placed(fields)["opcode"] = <<7, 0>>
         /\ Placed(fields)["param"] = <<15, 8>>
         /\ Placed(fields)["size"] = <<23, 16>>
         /\ Placed(fields)["corrupt"] = <<31, 24>>
         /\ Placed(fields)["source"] = <<63, 32>>
         /\ Placed(fields)["sink"] = <<95, 64>>
         /\ Placed(fields)["denied"] = <<103, 96>>
         /\ Placed(fields)["data"] = <<359, 104>>
<1>1. PICK n \in {8, 9} : n = Len(fields)
  BY DEF Struct, Concatenation
<1>2. /\ fields[1][1] = "opcode" /\ fields[1][2] = 8
      /\ fields[2][1] = "param" /\ fields[2][2] = 8
      /\ fields[3][1] = "size" /\ fields[3][2] = 8
      /\ fields[4][1] = "corrupt" /\ fields[4][2] = 8
      /\ fields[5][1] = "source" /\ fields[5][2] = 32
      /\ fields[6][1] = "sink" /\ fields[6][2] = 32
      /\ fields[7][1] = "denied" /\ fields[7][2] = 8
      /\ fields[8][1] = "data" /\ fields[8][2] = 256
  BY DEF Struct, Concatenation
<1>3. n = 9 => fields[9][1] = "reserved" /\ fields[9][2] = 56
  <2>1. CASE fields = Struct["D"]
    BY <1>1, <2>1 DEF Struct
  <2>2. CASE fields = Concatenation["D"]
    <3>1. Len(fields) = 8
      BY <2>2 DEF Concatenation
    <3> QED  BY <1>1, <3>1
  <2> QED  BY <2>1, <2>2
<1> DEFINE number == [opcode |-> 1, param |-> 2, size |-> 3,
                      corrupt |-> 4, source |-> 5, sink |-> 6,
                      denied |-> 7, data |-> 8, reserved |-> 9]
<1>4. ASSUME NEW i \in 1 .. n
      PROVE  fields[i][2] \in Nat /\ number[fields[i][1]] = i
  <2>1. i \in {1, 2, 3, 4, 5, 6, 7, 8, 9} /\ (i = 9 => n = 9)
    BY NineCases
  <2>2. CASE i = 1
    BY <1>2, <2>1, <2>2
  <2>3. CASE i = 2
    BY <1>2, <2>1, <2>3
  <2>4. CASE i = 3
    BY <1>2, <2>1, <2>4
  <2>5. CASE i = 4
    BY <1>2, <2>1, <2>5
  <2>6. CASE i = 5
    BY <1>2, <2>1, <2>6
  <2>7. CASE i = 6
    BY <1>2, <2>1, <2>7
  <2>8. CASE i = 7
    BY <1>2, <2>1, <2>8
  <2>9. CASE i = 8
    BY <1>2, <2>1, <2>9
  <2>10. CASE i = 9
    BY <1>3, <2>1, <2>10
  <2> QED  BY <2>1, <2>2, <2>3, <2>4, <2>5, <2>6, <2>7, <2>8, <2>9, <2>10
<1> HIDE DEF number
<1>5. \A i \in 1 .. Len(fields) : fields[i][2] \in Nat
  BY <1>1, <1>4
<1>6. \A i \in 1 .. Len(fields) : number[fields[i][1]] = i
  BY <1>1, <1>4
<1>7. ASSUME NEW i \in 1 .. Len(fields)
      PROVE  Placed(fields)[fields[i][1]]
               = <<Starts(fields)[i] + fields[i][2] - 1, Starts(fields)[i]>>
  BY <1>6, PlacedAt
<1>8. /\ Starts(fields)[1] = 0
      /\ \A i \in 2 .. 8 :
           Starts(fields)[i] = Starts(fields)[i - 1] + fields[i - 1][2]
  <2>1. Len(fields) \in 8 .. 9
    BY <1>1
  <2> QED  BY <1>5, <2>1, StartsOfEight
<1>9. Starts(fields)[1] = 0
  BY <1>2, <1>8
<1>10. Starts(fields)[2] = 8
  BY <1>2, <1>8, <1>9
<1>11. Starts(fields)[3] = 16
  BY <1>2, <1>8, <1>10
<1>12. Starts(fields)[4] = 24
  BY <1>2, <1>8, <1>11
<1>13. Starts(fields)[5] = 32
  BY <1>2, <1>8, <1>12
<1>14. Starts(fields)[6] = 64
  BY <1>2, <1>8, <1>13
<1>15. Starts(fields)[7] = 96
  BY <1>2, <1>8, <1>14
<1>16. Starts(fields)[8] = 104
  BY <1>2, <1>8, <1>15
<1>17. Placed(fields)["opcode"] = <<7, 0>>
  <2>1. 1 \in 1 .. Len(fields) /\ 0 + 8 - 1 = 7
    BY <1>1
  <2>2. Placed(fields)[fields[1][1]]
          = <<Starts(fields)[1] + fields[1][2] - 1, Starts(fields)[1]>>
    BY <1>7, <2>1
  <2> QED  BY <1>2, <1>9, <2>1, <2>2
<1>18. Placed(fields)["param"] = <<15, 8>>
  <2>1. 2 \in 1 .. Len(fields) /\ 8 + 8 - 1 = 15
    BY <1>1
  <2>2. Placed(fields)[fields[2][1]]
          = <<Starts(fields)[2] + fields[2][2] - 1, Starts(fields)[2]>>
    BY <1>7, <2>1
  <2> QED  BY <1>2, <1>10, <2>1, <2>2
<1>19. Placed(fields)["size"] = <<23, 16>>
  <2>1. 3 \in 1 .. Len(fields) /\ 16 + 8 - 1 = 23
    BY <1>1
  <2>2. Placed(fields)[fields[3][1]]
          = <<Starts(fields)[3] + fields[3][2] - 1, Starts(fields)[3]>>
    BY <1>7, <2>1
  <2> QED  BY <1>2, <1>11, <2>1, <2>2
<1>20. Placed(fields)["corrupt"] = <<31, 24>>
  <2>1. 4 \in 1 .. Len(fields) /\ 24 + 8 - 1 = 31
    BY <1>1
  <2>2. Placed(fields)[fields[4][1]]
          = <<Starts(fields)[4] + fields[4][2] - 1, Starts(fields)[4]>>
    BY <1>7, <2>1
  <2> QED  BY <1>2, <1>12, <2>1, <2>2
<1>21. Placed(fields)["source"] = <<63, 32>>
  <2>1. 5 \in 1 .. Len(fields) /\ 32 + 32 - 1 = 63
    BY <1>1
  <2>2. Placed(fields)[fields[5][1]]
          = <<Starts(fields)[5] + fields[5][2] - 1, Starts(fields)[5]>>
    BY <1>7, <2>1
  <2> QED  BY <1>2, <1>13, <2>1, <2>2
<1>22. Placed(fields)["sink"] = <<95, 64>>
  <2>1. 6 \in 1 .. Len(fields) /\ 64 + 32 - 1 = 95
    BY <1>1
  <2>2. Placed(fields)[fields[6][1]]
          = <<Starts(fields)[6] + fields[6][2] - 1, Starts(fields)[6]>>
    BY <1>7, <2>1
  <2> QED  BY <1>2, <1>14, <2>1, <2>2
<1>23. Placed(fields)["denied"] = <<103, 96>>
  <2>1. 7 \in 1 .. Len(fields) /\ 96 + 8 - 1 = 103
    BY <1>1
  <2>2. Placed(fields)[fields[7][1]]
          = <<Starts(fields)[7] + fields[7][2] - 1, Starts(fields)[7]>>
    BY <1>7, <2>1
  <2> QED  BY <1>2, <1>15, <2>1, <2>2
<1>24. Placed(fields)["data"] = <<359, 104>>
  <2>1. 8 \in 1 .. Len(fields) /\ 104 + 256 - 1 = 359
    BY <1>1
  <2>2. Placed(fields)[fields[8][1]]
          = <<Starts(fields)[8] + fields[8][2] - 1, Starts(fields)[8]>>
    BY <1>7, <2>1
  <2> QED  BY <1>2, <1>16, <2>1, <2>2
<1> QED
  BY <1>17, <1>18, <1>19, <1>20, <1>21, <1>22, <1>23, <1>24

(***************************************************************************)
(* The C structs, pack and unpack put every field of A and of D at the     *)
(* same bits of the packet (tilelinklib.h:89-124, Bundles.scala:46-126).   *)
(***************************************************************************)
THEOREM OneLayout == LayoutsAgree
<1>1. ASSUME NEW f \in Fields["A"]
      PROVE  StructBits["A"][f] = BitsOfA[f] /\ PackBits["A"][f] = BitsOfA[f]
  <2>1. /\ StructBits["A"] = Placed(Struct["A"])
        /\ PackBits["A"] = Placed(Concatenation["A"])
    BY DEF StructBits, PackBits, Kinds
  <2>2. f \in {"opcode", "param", "size", "corrupt", "source", "address",
               "mask", "data"}
    BY DEF Fields
  <2>3. CASE f = "opcode"
    BY <2>1, <2>3, BitsInA DEF BitsOfA
  <2>4. CASE f = "param"
    BY <2>1, <2>4, BitsInA DEF BitsOfA
  <2>5. CASE f = "size"
    BY <2>1, <2>5, BitsInA DEF BitsOfA
  <2>6. CASE f = "corrupt"
    BY <2>1, <2>6, BitsInA DEF BitsOfA
  <2>7. CASE f = "source"
    BY <2>1, <2>7, BitsInA DEF BitsOfA
  <2>8. CASE f = "address"
    BY <2>1, <2>8, BitsInA DEF BitsOfA
  <2>9. CASE f = "mask"
    BY <2>1, <2>9, BitsInA DEF BitsOfA
  <2>10. CASE f = "data"
    BY <2>1, <2>10, BitsInA DEF BitsOfA
  <2> QED  BY <2>2, <2>3, <2>4, <2>5, <2>6, <2>7, <2>8, <2>9, <2>10
<1>2. ASSUME NEW f \in Fields["D"]
      PROVE  StructBits["D"][f] = BitsOfD[f] /\ PackBits["D"][f] = BitsOfD[f]
  <2>1. /\ StructBits["D"] = Placed(Struct["D"])
        /\ PackBits["D"] = Placed(Concatenation["D"])
    BY DEF StructBits, PackBits, Kinds
  <2>2. f \in {"opcode", "param", "size", "corrupt", "source", "sink",
               "denied", "data"}
    BY DEF Fields
  <2>3. CASE f = "opcode"
    BY <2>1, <2>3, BitsInD DEF BitsOfD
  <2>4. CASE f = "param"
    BY <2>1, <2>4, BitsInD DEF BitsOfD
  <2>5. CASE f = "size"
    BY <2>1, <2>5, BitsInD DEF BitsOfD
  <2>6. CASE f = "corrupt"
    BY <2>1, <2>6, BitsInD DEF BitsOfD
  <2>7. CASE f = "source"
    BY <2>1, <2>7, BitsInD DEF BitsOfD
  <2>8. CASE f = "sink"
    BY <2>1, <2>8, BitsInD DEF BitsOfD
  <2>9. CASE f = "denied"
    BY <2>1, <2>9, BitsInD DEF BitsOfD
  <2>10. CASE f = "data"
    BY <2>1, <2>10, BitsInD DEF BitsOfD
  <2> QED  BY <2>2, <2>3, <2>4, <2>5, <2>6, <2>7, <2>8, <2>9, <2>10
<1> QED  BY <1>1, <1>2 DEF LayoutsAgree, UnpackBits, Kinds
=============================================================================
