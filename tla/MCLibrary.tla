----------------------------- MODULE MCLibrary -----------------------------
(***************************************************************************)
(* A small engineering library: two bolts under one designation, a nut of  *)
(* another thread, conditions with and without separate friction values,   *)
(* references to no record, materials that tie or lack a value.            *)
(***************************************************************************)
EXTENDS Assemblies, Materials

Bolt(designation, d, pitch, cut, class, max, coatings, family) ==
  [designation |-> designation, diameter |-> d, pitch |-> pitch, cut |-> cut,
   class |-> class, min |-> 0, max |-> max, coatings |-> coatings, family |-> family,
   tolerance |-> "external", lubrication |-> "dry", singleUse |-> FALSE]

Nut(designation, d, pitch, cut, class, max, coatings, family) ==
  [Bolt(designation, d, pitch, cut, class, max, coatings, family)
     EXCEPT !.tolerance = "internal"]

MCBolts ==
  <<Bolt("M12", 120, 18, "coarse", "8.8", 2, {"plain", "zinc"}, "ISO"),
    Bolt("M12", 120, 18, "coarse", "10.9", 3, {"plain"}, "EN"),
    Bolt("M27", 270, 30, "coarse", "10.9", 3, {"plain"}, "EN")>>

MCNuts ==
  <<Nut("ISO 4032 M12", 120, 18, "coarse", "8", 2, {"plain", "zinc"}, "ISO"),
    [Nut("ISO 8673 M12x1.25", 120, 13, "fine", "8", 2, {"plain"}, "ISO")
       EXCEPT !.singleUse = TRUE],
    Nut("ISO 4032 M27", 270, 30, "coarse", "8", 2, {"plain"}, "ISO"),
    Nut("EN 14399 M27", 270, 30, "coarse", "10", 3, {"plain"}, "EN")>>

Condition(id, coating, lubricant, overall) ==
  [id |-> id, coating |-> coating, lubricant |-> lubricant, overall |-> overall,
   muThread |-> None, muBearing |-> None, kFactor |-> None, sourced |-> TRUE,
   model |-> "combined_or_unspecified", referenceOnly |-> TRUE, legacy |-> FALSE]

MCConditions ==
  {Condition("dry", None, None, <<14, 22>>),
   Condition("zinc", "zinc", None, <<10, 16>>),
   Condition("oil", None, "oil", <<6, 9>>),
   Condition("dangling", "gone", None, <<6, 9>>),
   [Condition("legacy", "zinc", None, <<10, 16>>) EXCEPT !.legacy = TRUE],
   [Condition("empty", "zinc", "oil", None) EXCEPT !.model = "unspecified"],
   [Condition("split", None, "oil", None) EXCEPT !.muThread = <<8, 10>>,
      !.muBearing = <<9, 12>>, !.model = "separated", !.referenceOnly = FALSE]}

Nothing ==
  [bolt |-> None, nut |-> None, boltClass |-> None, nutClass |-> None, diameter |-> None,
   thread |-> None, size |-> None, washer |-> None, friction |-> None, standard |-> None,
   oem |-> None, automotive |-> None, temperature |-> None, coating |-> None]

Fitting ==
  [bolt |-> "M12", nut |-> "ISO 4032 M12", boltClass |-> "8.8", nutClass |-> "8",
   diameter |-> 120, thread |-> "M12", size |-> "M12", washer |-> "ISO 7089",
   friction |-> "zinc", standard |-> "ISO 898", oem |-> "OEM", automotive |-> "OEM",
   temperature |-> 1, coating |-> "plain"]

MCThreads == {[designation |-> "M12", diameter |-> 120]}

MCWashers ==
  {[standard |-> "ISO 7089", sizes |-> {"M12"}],
   [standard |-> "DIN 125", sizes |-> {"M27"}]}

\* Groups of inputs that are looked at together, all others given or withheld.
MCInputs ==
  LET others == {Nothing, Fitting}
      nuts == {MCNuts[i].designation : i \in DOMAIN MCNuts}
  IN  {[o EXCEPT !.bolt = b, !.nut = n, !.temperature = c, !.coating = f] :
         o \in others, b \in {None, "M12", "M27", "M99"}, n \in {None, "M99"} \cup nuts,
         c \in {None, 1, 3}, f \in {None, "plain", "other"}}
      \cup {[o EXCEPT !.boltClass = b, !.nutClass = n, !.diameter = d] :
         o \in others, b \in {None, "3.6", "4.6", "4.8", "5.8", "8.8", "10.9", "A2-70"},
         n \in {None, "04", "8", "9", "10", "A2"}, d \in {None, 30, 120, 420}}
      \cup {[o EXCEPT !.thread = th, !.diameter = d] :
         o \in others, th \in {None, "M12", "M99"}, d \in {None, 30, 120}}
      \cup {[o EXCEPT !.size = s, !.washer = w, !.friction = f] :
         o \in others, s \in {None, "M12", "M99"}, w \in {None, "ISO 7089", "DIN 125"},
         f \in {None, "unknown"} \cup {r.id : r \in MCConditions}}
      \cup {[o EXCEPT !.standard = s, !.oem = m, !.automotive = a] :
         o \in others, s \in {None, "ISO 898", "unknown"},
         m, a \in {None, "OEM", "unknown"}}

----------------------------------------------------------------------------

Material(rank, rp02, rm, elastic, families) ==
  [rank |-> rank, rp02 |-> rp02, rm |-> rm, elastic |-> elastic, families |-> families,
   validation |-> "reference_only", approval |-> "pending"]

MCMaterials ==
  <<Material(3, 35, 50, 21, {"steel"}),
    Material(1, 90, 110, 21, {"steel", "alloy steel"}),
    Material(4, 83, 90, None, {"titanium"}),
    Material(2, 45, 70, 21, {"steel"})>>

MCLibraries ==
  {MCMaterials, <<>>}
  \cup {[MCMaterials EXCEPT ![2].approval = "approved", ![i].validation = v] :
          i \in {2, 3}, v \in {"verified", "reference_only"}}

MCRequirements ==
  [rp02 : {None, 0, 30, 40}, rm : {None, 60, 70}, elastic : {None, 20},
   family : {None, "steel", "brass"}]
=============================================================================
