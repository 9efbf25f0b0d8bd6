----------------------------- MODULE Clustering -----------------------------
(***************************************************************************)
(* How a sleep cycle groups the memories of a tenant: DBSCAN over the      *)
(* cosine distance of their embeddings (MemoryConsolidator._cluster in     *)
(* memory/consolidation.py).  Episodes are a sequence; points are places   *)
(* in it.                                                                  *)
(***************************************************************************)
EXTENDS Integers, Sequences, SequencesExt, FiniteSets

CONSTANT MinSamples   \* how many neighbours, itself among them, make a core point

Unvisited == -2
Noise == -1

(* Embeddings are vectors of integers, zipped up to the shorter one.       *)
Dot(u, v) ==
  FoldLeft(+, 0, [i \in 1..(IF Len(u) < Len(v) THEN Len(u) ELSE Len(v)) |->
                    u[i] * v[i]])

(* The cosine distance is at most eps = 0.2, without roots: the cosine is  *)
(* at least 4/5.  The distance of a zero vector, even to itself, is 1.     *)
Close(u, v) ==
  LET norms == Dot(u, u) * Dot(v, v)
  IN norms # 0 /\ Dot(u, v) > 0 /\ 25 * Dot(u, v) * Dot(u, v) >= 16 * norms

(* Places in their order.                                                  *)
InOrder(S) ==
  CHOOSE q \in [1..Cardinality(S) -> S] :
    \A i, k \in DOMAIN q : i < k => q[i] < q[k]

(* The distances, as far as they matter: the neighbours of each point.     *)
Near(es) == [i \in DOMAIN es |-> {j \in DOMAIN es : Close(es[i], es[j])}]

IsCore(near, i) == Cardinality(near[i]) >= MinSamples

(* The search: the neighbours and the label of every point, the points in  *)
(* the queue, all that were ever put there for this cluster, its number.   *)
NewSearch(es) ==
  [near |-> Near(es), label |-> [i \in DOMAIN es |-> Unvisited], seeds |-> <<>>,
   queued |-> {}, id |-> -1]

(* A search that goes no further than the neighbours of the first point (a *)
(* mutant of Visit).                                                       *)
VisitOnly(s) ==
  [s EXCEPT !.label[Head(s.seeds)] = IF @ \in {Unvisited, Noise} THEN s.id ELSE @,
            !.seeds = Tail(@)]

(* A point of the queue: a new one that is a core point brings neighbours, *)
(* one that was taken for noise only joins the cluster.                    *)
Visit(s) ==
  LET point == Head(s.seeds)
      more == IF s.label[point] = Unvisited /\ IsCore(s.near, point)
              THEN {j \in s.near[point] \ (s.queued \cup {point}) :
                      s.label[j] \in {Unvisited, Noise}}
              ELSE {}
  IN [s EXCEPT !.label[point] = IF @ \in {Unvisited, Noise} THEN s.id ELSE @,
               !.seeds = Tail(@) \o InOrder(more), !.queued = @ \cup more]

(* The first point that has no label: noise, or the start of a cluster.    *)
Begin(s) ==
  LET i == CHOOSE i \in DOMAIN s.label : 
             /\ s.label[i] = Unvisited
             /\ \A j \in 1..(i - 1) : s.label[j] # Unvisited
      others == s.near[i] \ {i}
  IN IF ~IsCore(s.near, i) THEN [s EXCEPT !.label[i] = Noise]
     ELSE [s EXCEPT !.label[i] = s.id + 1, !.seeds = InOrder(others),
                    !.queued = others, !.id = @ + 1]

Complete(s) == s.seeds = <<>> /\ \A i \in DOMAIN s.label : s.label[i] # Unvisited

(* One turn of the inner loop, or of the outer one.                        *)
Turn(s) == IF s.seeds # <<>> THEN Visit(s) ELSE Begin(s)

(* The clusters <<number, points>> in the order of their first points.     *)
Clusters(label) ==
  LET firsts == InOrder({i \in DOMAIN label :
                  label[i] >= 0 /\ \A j \in 1..(i - 1) : label[j] # label[i]})
  IN [k \in DOMAIN firsts |->
        <<label[firsts[k]], InOrder({i \in DOMAIN label : label[i] = label[firsts[k]]})>>]

(* Clusters of one, which are taken for noise, are left out.               *)
Large(all) ==
  LET large == InOrder({k \in DOMAIN all : Len(all[k][2]) >= 2})
  IN [k \in DOMAIN large |-> all[large[k]]]

-----------------------------------------------------------------------------
(* The definition of density-based clusters, for comparison.               *)

(* Exactly the points near a core point are in a cluster; close core       *)
(* points are in the same one; and the core points of a cluster do not     *)
(* fall into two parts without a close pair between them.                  *)
IsClustering(es, clusters) ==
  LET core == {i \in DOMAIN es : IsCore(Near(es), i)}
      Member(k) == ToSet(clusters[k][2])
      Together(i, j) == \E k \in DOMAIN clusters : {i, j} \subseteq Member(k)
  IN /\ \A k, m \in DOMAIN clusters : k # m =>
          clusters[k][1] # clusters[m][1] /\ Member(k) \cap Member(m) = {}
     /\ \A i \in DOMAIN es :
          Together(i, i) <=> \E j \in core : Close(es[i], es[j]) /\ Together(i, j)
     /\ \A i, j \in core : Close(es[i], es[j]) => Together(i, j)
     /\ \A i \in DOMAIN es \ core, j \in core :
          Close(es[i], es[j]) => Together(i, i)
     /\ \A k \in DOMAIN clusters :
          LET all == core \cap Member(k)
          IN \A part \in (SUBSET all) \ {{}, all} :
               \E i \in part, j \in all \ part : Close(es[i], es[j])
=============================================================================
