------------------------------ MODULE Sanitizer ------------------------------
(***************************************************************************)
(* ExtractionSanitizer (src/src/extraction_sanitizer.cpp): what is done to *)
(* the faces between the subdivision and the end of extract_faces, without *)
(* what depends on numbers alone (the relaxation of reflex corners).       *)
(*                                                                         *)
(* Faces are sequences of `posy` corners.  The last two corners of a       *)
(* triangle of a quad mesh are the same.  A face that is dropped is        *)
(* Invalid until the faces are compacted.                                  *)
(***************************************************************************)
EXTENDS Integers, FiniteSets, Sequences, SequencesExt

Invalid == << >>

Degree(face) == IF Len(face) = 4 /\ face[3] = face[4] THEN 3 ELSE Len(face)
Corners(face) == {face[k] : k \in 1 .. Degree(face)}

Elements(seq, keep) == [n \in 1 .. Cardinality(keep) |->
    seq[CHOOSE k \in keep : Cardinality({m \in keep : m <= k}) = n]]
Compacted(faces) == Elements(faces, {f \in DOMAIN faces : faces[f] # Invalid})

-----------------------------------------------------------------------------
(* sanitize_coarse_quads, 1: corners that follow each other and are the    *)
(* same become one, the last and the first as well, and a face with less   *)
(* than three, or with the same corner on both sides, is dropped.          *)
Collapsed(face) ==
    LET deg == Degree(face)
        changing == {k \in 1 .. deg : k = 1 \/ face[k] # face[k - 1]}
        verts == Elements(face, IF face[1] = face[deg] THEN changing \ {deg} ELSE changing)
    IN IF Len(verts) < 3 \/ (Len(verts) = 4 /\ (verts[1] = verts[3] \/ verts[2] = verts[4])) THEN Invalid
       ELSE IF Len(verts) = 3 /\ Len(face) = 4 THEN Append(verts, verts[3])
       ELSE verts

(* 2: of faces with the same corners the first one stays. *)

(* Mutant of Unique: the same face the other way round is another one. *)
UniqueByOrder(faces) ==
    [f \in DOMAIN faces |-> IF \E g \in 1 .. f - 1 : faces[g] = faces[f] THEN Invalid ELSE faces[f]]

Unique(faces) ==
    [f \in DOMAIN faces |->
        IF faces[f] # Invalid
            /\ \E g \in 1 .. f - 1 : faces[g] # Invalid /\ Corners(faces[g]) = Corners(faces[f])
        THEN Invalid ELSE faces[f]]

(* 3: quads against the normals of their corners are turned. *)
Turned(face) == <<face[1], face[4], face[3], face[2]>>
Flipped(faces, against) == [f \in DOMAIN faces |-> IF f \in against THEN Turned(faces[f]) ELSE faces[f]]
Quads(faces) == {f \in DOMAIN faces : faces[f] # Invalid /\ Degree(faces[f]) = 4}

(* 4: the faces around a vertex that hang together over edges at it.       *)
At(faces, v) == {f \in DOMAIN faces : faces[f] # Invalid /\ v \in Corners(faces[f])}

(* The corners before and after v. *)
Beside(face, v) ==
    LET deg == Degree(face)
        k == CHOOSE n \in 1 .. deg : face[n] = v
    IN {face[((k + deg - 2) % deg) + 1], face[(k % deg) + 1]}

Fan(faces, v, f) ==
    LET incident == At(faces, v)
        fan[n \in 0 .. Cardinality(incident)] ==
            IF n = 0 THEN {f}
            ELSE LET nearer == fan[n - 1]
                     sides == UNION {Beside(faces[h], v) : h \in nearer}
                 IN {g \in incident : Beside(faces[g], v) \cap sides # {}}
    IN fan[Cardinality(incident)]

FansAt(faces, v) == {Fan(faces, v, f) : f \in At(faces, v)}

(* Every fan but the one with the first face gets a vertex of its own, in  *)
(* the order of their first faces.  Only the first three corners of a      *)
(* triangle are looked at.                                                 *)
First(fan) == CHOOSE f \in fan : \A g \in fan : f <= g

Split(faces, v, count) ==
    LET place(f) == Cardinality({fan \in FansAt(faces, v) : First(fan) < First(Fan(faces, v, f))})
    IN [f \in DOMAIN faces |->
            IF f \notin At(faces, v) \/ place(f) = 0 THEN faces[f]
            ELSE [k \in DOMAIN faces[f] |->
                IF k <= Degree(faces[f]) /\ faces[f][k] = v THEN count + place(f) - 1 ELSE faces[f][k]]]

(* All of the first nV vertices, one after the other.  The vertices that   *)
(* the new ones come from follow them.                                     *)
SplitAll(faces, nV) ==
    LET after[v \in 0 .. nV] ==
            IF v = 0 THEN [faces |-> faces, origin |-> << >>]
            ELSE LET r == after[v - 1]
                     more == Cardinality(FansAt(r.faces, v - 1)) - 1
                 IN IF more < 1 THEN r
                    ELSE [faces |-> Split(r.faces, v - 1, nV + Len(r.origin)),
                          origin |-> r.origin \o [n \in 1 .. more |-> v - 1]]
    IN after[nV]

(* The faces before the windings are looked at, and the result: the faces, *)
(* and where the new vertices come from.                                   *)
Deduplicated(faces) == Unique([f \in DOMAIN faces |-> Collapsed(faces[f])])

SanitizeCoarse(faces, nV, against) ==
    LET split == SplitAll(Flipped(Deduplicated(faces), against), nV)
    IN [faces |-> Compacted(split.faces), origin |-> split.origin]

-----------------------------------------------------------------------------
(* sanitize_final_mesh, 1: faces that are degenerate are dropped. *)
Degenerate(face) ==
    LET deg == Degree(face)
    IN \/ \E k \in 1 .. deg : face[k] = face[(k % deg) + 1]
       \/ deg = 4 /\ (face[1] = face[3] \/ face[2] = face[4])
=============================================================================
