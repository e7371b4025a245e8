------------------------------ MODULE MCExrole ------------------------------
(* Instructions whose operands are nested up to five deep through instructions,
   pairs, addresses and calls of up to four arguments, one more than a field of
   two bits can say, and five helper names, four of them listed. *)
EXTENDS Exrole

LOCAL Leaf(t) == [place \in {<<>>} |-> [t |-> t]]
LOCAL Under(node, kids) ==
  [place \in {<<>>} \cup UNION {{<<n>> \o p : p \in DOMAIN kids[n]} : n \in DOMAIN kids} |->
     IF place = <<>> THEN node ELSE kids[Head(place)][Tail(place)]]

LOCAL Z == Leaf("z")
LOCAL N == Leaf("n")
LOCAL R == Leaf("r")
LOCAL Pair(x, y) == Under([t |-> "p"], <<x, y>>)
LOCAL Addr(x) == Under([t |-> "a"], <<x>>)
LOCAL Args(list) == Under([t |-> "f", args |-> Len(list)], list)
LOCAL Nest(x, y, z) == Under([t |-> "d", op |-> "other"], <<x, y, z>>)
LOCAL Helper(x) == [place \in {<<>>} |-> [t |-> "h", name |-> x]]
LOCAL Call(f, list) == Under([t |-> "d", op |-> "call"], <<f, Z, Args(list)>>)
LOCAL Top(x, y, z) == Under([t |-> "insn", op |-> "other"], <<x, y, z>>)
LOCAL TopCall(f, list) == Under([t |-> "insn", op |-> "call"], <<f, Z, Args(list)>>)

LOCAL Simple == <<Z, N, Nest(N, Z, Z), Nest(Z, Z, Z), Nest(Z, Z, N), Pair(R, N), Addr(N)>>
LOCAL Deep == <<Nest(R, Nest(N, Nest(R, Nest(N, Z, R), R), Z), R),
                Nest(Nest(N, Z, R), R, R), Addr(Nest(Pair(R, Addr(N)), R, Z)),
                Nest(R, R, Nest(R, R, Nest(N, N, Nest(R, N, N))))>>
LOCAL Both == Simple \o Deep
LOCAL Lists == {<<>>, <<N>>, <<N, Nest(R, N, Z)>>, <<Pair(R, N), N, R>>, <<N, N, R, N>>}
LOCAL Shapes ==
  {[n \in DOMAIN Simple |-> Top(Simple[n], x, z)] : x \in Range(Simple), z \in {Z, R}}
  \cup {[n \in DOMAIN Simple |-> Top(x, Simple[n], R)] : x \in Range(Deep)}
  \cup {[n \in DOMAIN Both |-> Top(Call(R, list), Both[n], R)] : list \in Lists}

LOCAL Called(x, y) ==
  {Top(Call(Helper(x), <<N>>), Call(Helper(y), <<>>), R),
   Top(Call(Helper(x), <<R, Call(Helper(y), <<N>>)>>), Z, R),
   Top(Nest(Call(Helper(x), <<N>>), Call(R, <<Call(Helper(y), <<>>)>>), Z), N, R),
   TopCall(Helper(x), <<Call(Helper(y), <<N>>), N>>)}
LOCAL Calling == UNION {Called(x, y) : x \in {1, 3}, y \in {2, 4, 5}}

MCFunctions == {<<i>> : i \in Calling} \cup Shapes
MCInsns == UNION {Range(code) : code \in MCFunctions}

\* The four names listed and a fifth, which shares its hash with one of them.
MCNames == 1..5

LOCAL Naming(hash, length) == [x \in MCNames |-> [text |-> x, hash |-> hash[x], length |-> length[x]]]
MCNamings ==
  {Naming(hash, length) :
     hash \in {<<1, h, i, j, 1>> : h \in 1..2, i \in 1..2, j \in 1..2} \cup {<<3, 1, 2, 2, 2>>},
     length \in {<<1, 1, 1, 1, 1>>, <<1, 2, 1, 2, 1>>, <<2, 2, 1, 1, 2>>}}

LOCAL L(x, r) == [name |-> x, role |-> r]
MCListings ==
  {<<L(1, 1), L(2, 1), L(3, 2), L(4, 3)>>, <<L(4, 1), L(2, 2), L(1, 3), L(3, 3)>>,
   <<L(3, 1), L(1, 1), L(2, 2), L(3, 2), L(4, 3)>>}
=============================================================================
