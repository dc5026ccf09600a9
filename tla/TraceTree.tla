----------------------------- MODULE TraceTree -----------------------------
(***************************************************************************)
(* HistoryAnalyzer.populateTree of 2022A/SUB4: the lines of the history    *)
(* file, as TraceServlet reads them, to the tree of the calls of one       *)
(* request.  An entry is a record [req, time, source, target]; a file maps *)
(* the places of its lines to their entries.  A node of the tree is the    *)
(* position of its entry in the list of the request.                       *)
(***************************************************************************)
EXTENDS Naturals, FiniteSets, Sequences

(* reverseReadFileToList puts the last line first; sortByNth sorts by the  *)
(* time and keeps the order of lines of the same time; reverse follows.    *)
(* So a later time goes first, and of equal times the earlier line.        *)
Before(file, j, k) ==
  \/ file[j].time > file[k].time
  \/ file[j].time = file[k].time /\ j < k

(* Mutant: the sorted lines are not reversed.                              *)
AfterSort(file, req) ==
  LET Own == {k \in DOMAIN file : file[k].req = req}
      Place(k) == Cardinality({j \in Own : j = k \/ Before(file, k, j)})
  IN  [i \in 1 .. Cardinality(Own) |-> file[CHOOSE k \in Own : Place(k) = i]]

(* logMap.get(requestId) of the parsed, sorted lines.                      *)
FlatList(file, req) ==
  LET Own == {k \in DOMAIN file : file[k].req = req}
      Place(k) == Cardinality({j \in Own : j = k \/ Before(file, j, k)})
  IN  [i \in 1 .. Cardinality(Own) |-> file[CHOOSE k \in Own : Place(k) = i]]

(* serviceNodeMap.get(name): the entry put last under its source, or 0.    *)
NodeOf(flat, name) ==
  LET Puts == {i \in DOMAIN flat : flat[i].source = name}
  IN  IF Puts = {} THEN 0 ELSE CHOOSE i \in Puts : \A j \in Puts : j <= i

(* The pairs <<parent, child>> that the loop links: the parent is looked   *)
(* up by name, not the entry itself.                                       *)
Links(flat) ==
  {<<NodeOf(flat, flat[i].source), NodeOf(flat, flat[i].target)>> : i \in DOMAIN flat}

PopulateTree(file, req) ==
  LET flat == FlatList(file, req)
  IN  [root  |-> flat[1],
       calls |-> {<<flat[l[1]], flat[l[2]]>> : l \in {k \in Links(flat) : k[1] # 0 /\ k[2] # 0}}]
=============================================================================
