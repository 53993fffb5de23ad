---------------------------- MODULE MCDataFiles ----------------------------
(***************************************************************************)
(* Small data files of the engineering library: a clean set of one or two  *)
(* records a library, and the sets that differ from it in one field, or in *)
(* two where the checks weigh one against the other.                       *)
(***************************************************************************)
EXTENDS LibraryChecks

Base(id) ==
  [id |-> id, typed |-> TRUE, checksum |-> TRUE, validation |-> "validated",
   approval |-> "approved", source |-> "ISO", standard |-> "ISO", min |-> 0, max |-> 2]

MCThread(id, d, p, series, pitchType, named) ==
  Base(id) @@
  [designation |-> <<d, IF named THEN p ELSE None>>, nominal |-> d, pitch |-> p,
   series |-> series, pitchType |-> pitchType, threadSeries |-> "ISO_METRIC",
   version |-> 1, undeclared |-> {}, minorExternal |-> 0, minorInternal |-> 1,
   area |-> 40]

MCPart(id, standard, thread, p, class) ==
  [Base(id) EXCEPT !.standard = standard] @@
  [designation |-> thread, thread |-> thread, diameter |-> thread[1],
   nominal |-> thread[1], pitch |-> p, pitchCoarse |-> None, class |-> class,
   stress |-> 84, hex |-> TRUE, flats |-> 18, corners |-> 20, hardness |-> <<255, 335>>,
   verified |-> TRUE, revision |-> "2026"]

MCBoltRecord(id, thread, p, class) ==
  MCPart(id, "ISO 4017", thread, p, class) @@ [proof |-> 58, yield |-> 64, tensile |-> 80]

MCNutRecord(id, thread, p, class) ==
  MCPart(id, "ISO 4032", thread, p, class) @@
  [lockNut |-> TRUE, principle |-> "insert", prevailing |-> TRUE, reusable |-> FALSE]

MCWasherRecord ==
  Base("w1") @@ [designation |-> "ISO 7089 M12", nominal |-> None, diameter |-> None,
                 inner |-> 13, outer |-> 24, thickness |-> 3, sizes |-> {1200}]

MCHardwareRecord ==
  Base("h1") @@ [designation |-> "pin", inner |-> None, outer |-> 6, length |-> 20]

NoRange == <<Null, Null>>

MCLubrication(id) ==
  Base(id) @@ [friction |-> <<8, 12>>, overall |-> NoRange, muThread |-> NoRange,
               muBearing |-> NoRange, kFactor |-> NoRange, scatter |-> Null,
               maxTemperature |-> Null, sourceReference |-> None,
               legacy |-> FALSE, warning |-> None]

MCConditionRecord(id, coating, lubricant, overall) ==
  [MCLubrication(id) EXCEPT !.friction = NoRange, !.overall = overall,
     !.sourceReference = "ISO 16047"] @@
  [coating |-> coating, lubricant |-> lubricant, surface |-> None]

M12 == <<1200, None>>
M12Fine == <<1200, 125>>
M39 == <<3900, None>>

CleanSet ==
  [threads |-> <<MCThread("t1", 1200, 175, "Coarse", "coarse", FALSE),
                 MCThread("t2", 1200, 125, "Fine", "fine", TRUE),
                 MCThread("t3", 3900, 400, "Coarse", "coarse", FALSE)>>,
   bolts |-> <<MCBoltRecord("b1", M12, 175, "8.8"), MCBoltRecord("b2", M39, 400, "8.8")>>,
   nuts |-> <<MCNutRecord("n1", M12, 175, "8"), MCNutRecord("n2", M12Fine, 125, "8")>>,
   washers |-> <<MCWasherRecord>>,
   hardware |-> <<MCHardwareRecord>>,
   lubrications |-> <<MCLubrication("oil")>>,
   conditions |-> <<MCConditionRecord("c1", "zinc", None, <<10, 16>>),
                    MCConditionRecord("c2", None, "oil", NoRange)>>,
   coatings |-> <<Base("zinc")>>,
   materials |-> <<Base("m1") @@ [material |-> None, yield |-> 64, ultimate |-> 80]>>,
   rules |-> <<Base("r1") @@ [bolt |-> "8.8", nut |-> "8"]>>,
   classes |-> <<Base("k1") @@ [designation |-> "8.8", category |-> "Bolt", rp02 |-> 64, rm |-> 80],
                 Base("k2") @@ [designation |-> "8", category |-> "Nut", rp02 |-> None, rm |-> 80]>>]

\* The clean set with field f of the first record of a library replaced.
Changed(lib, f, values) == {[CleanSet EXCEPT ![lib][1][f] = v] : v \in values}

Common ==
  UNION {Changed(lib, "id", {None, Null}) \cup Changed(lib, "typed", {FALSE})
           \cup Changed(lib, "checksum", {FALSE})
           \cup {[CleanSet EXCEPT ![lib][1].validation = v, ![lib][1].approval = a] :
                   v \in {"validated", "provisional", Null}, a \in {"approved", "pending", Null}}
           \cup {[CleanSet EXCEPT ![lib][1].source = v, ![lib][1].standard = a] :
                   v \in {"ISO", None}, a \in {"ISO", None}}
           \cup {[CleanSet EXCEPT ![lib] = << >>]} :
         lib \in Libraries}

OfThreads ==
  {[CleanSet EXCEPT !.threads[i].designation = v, !.threads[i].nominal = n,
                    !.threads[i].threadSeries = s] :
     i \in {1, 2}, v \in {Null, M12, M39}, n \in {Null, 1000, 1200}, s \in {"ISO_METRIC", "UNC", Null}}
  \cup {[CleanSet EXCEPT !.threads[i].series = v, !.threads[i].pitch = p] :
     i \in {1, 2}, v \in {"Coarse", "Fine", "UNC"}, p \in {0, 125, 175, 200}}
  \cup {[CleanSet EXCEPT !.threads[1].series = "UNC", !.threads[1].pitch = Null]}
  \cup Changed("threads", "version", {2}) \cup Changed("threads", "undeclared", {{"x"}})
  \cup Changed("threads", "area", {Null, -60, 50})
  \cup Changed("threads", "minorExternal", {Null, 2})
  \cup {[CleanSet EXCEPT !.threads[1].designation = <<1000, None>>, !.threads[1].nominal = n] :
          n \in {1000, 1200}}

OfParts ==
  {[CleanSet EXCEPT !.bolts[1].thread = b, !.bolts[1].pitch = p,
                    !.nuts[1].thread = n, !.nuts[1].pitch = q] :
     b, n \in {Null, M12, M12Fine, M39}, p, q \in {None, Null, 125, 175, 400}}
  \cup UNION {Changed(lib, "pitch", {0}) \cup Changed(lib, "corners", {18, Null})
                \cup Changed(lib, "hex", {FALSE}) \cup Changed(lib, "class", {Null, "7"})
                \cup Changed(lib, "hardness", {None, Null, <<9, 8>>})
                \cup Changed(lib, "revision", {None}) \cup Changed(lib, "max", {None, -1})
                \cup {[CleanSet EXCEPT ![lib][1].nominal = v, ![lib][1].diameter = w] :
                        v, w \in {None, Null, 0, 1200}} : lib \in {"bolts", "nuts"}}
  \cup Changed("bolts", "stress", {None, Null}) \cup Changed("bolts", "yield", {Null, 50, 90})
  \cup Changed("nuts", "principle", {None}) \cup Changed("nuts", "reusable", {Null})

OfFriction ==
  LET ends == {Null, -1, 9, 12}
      ranges == {<<low, high>> : low, high \in ends}
  IN  {[CleanSet EXCEPT !.conditions[i].muThread = a, !.conditions[i].muBearing = b,
                        !.conditions[i].sourceReference = s] :
         i \in {1, 2}, a \in ranges, b \in {NoRange, <<9, 12>>, <<Null, 12>>},
         s \in {None, "ISO 16047"}}
      \cup {[CleanSet EXCEPT !.conditions[1].overall = a] : a \in ranges}
      \cup {[CleanSet EXCEPT !.conditions[i].coating = c, !.conditions[i].lubricant = l,
                             !.conditions[2].overall = o] :
              i \in {1, 2}, c \in {None, Null, "zinc", "gone"}, l \in {None, Null, "oil", "gone"},
              o \in {NoRange, <<9, 12>>}}
      \cup {[CleanSet EXCEPT !.conditions[1].legacy = TRUE, !.conditions[1].warning = v] :
              v \in {None, "restricted"}}
      \cup {[CleanSet EXCEPT !.conditions[2].id = "c1"]}

OfOthers ==
  {[CleanSet EXCEPT !.washers[1].inner = a, !.washers[1].outer = b] :
     a, b \in {Null, 0, 13, 24}}
  \cup Changed("washers", "sizes", {{}, {Null}}) \cup Changed("hardware", "length", {0})
  \cup Changed("hardware", "designation", {None}) \cup Changed("materials", "yield", {90})
  \cup Changed("materials", "material", {"42CrMo4", "brass"})
  \cup Changed("rules", "bolt", {"10.9", "A2-70"}) \cup Changed("rules", "nut", {"10", "05", "A2"})
  \cup Changed("classes", "rp02", {90})

MCDataSets == {CleanSet} \cup Common \cup OfThreads \cup OfParts \cup OfFriction \cup OfOthers

----------------------------------------------------------------------------

MCClass(designation, standard, diameters) ==
  [designation |-> designation, standard |-> standard, diameters |-> diameters,
   hardness |-> <<255, 335>>, nominalTensile |-> 800, minTensile |-> 830, ratio |-> 8,
   minYield |-> 660, proof |-> 580, verification |-> "reference_only"]

MCClassFiles ==
  LET ranges == {<<500, 1600>>, <<1600, 3900>>, <<1700, 3900>>, <<None, 1000>>,
                 <<2000, None>>, <<Null, 1600>>, <<1600, 500>>}
      one == MCClass(<<8, 8>>, "ISO 898-1", <<500, 1600>>)
  IN  {<<[one EXCEPT !.diameters = a], [one EXCEPT !.diameters = b]>> : a, b \in ranges}
      \cup {<<[one EXCEPT !.standard = "EN"], [one EXCEPT !.diameters = b]>> : b \in ranges}
      \cup {<<[one EXCEPT !.designation = d, !.standard = s, !.nominalTensile = n, !.ratio = q]>> :
              d \in {Null, <<8, 8>>, <<70, 2>>}, s \in {"ISO 898-1", "ISO 3506-1"},
              n \in {Null, 0, 700, 800}, q \in {Null, 8, 9, 11}}
      \cup {<<[one EXCEPT !.minYield = y, !.verification = v, !.hardness = h]>> :
              y \in {Null, 900}, v \in {"reference_only", "final"},
              h \in {<<Null, Null>>, <<335, 255>>}}

MCEntry(washer, status) ==
  [washer |-> washer, issue |-> "identity", status |-> status, note |-> "seen",
   evidence |-> "standard", needsSource |-> TRUE, confidence |-> Null, washerData |-> {}]

MCLedgers ==
  LET two(a, b) == <<MCEntry("w1", a), MCEntry("w1", b)>>
  IN  {[washers |-> {"w1"}, records |-> r] :
         r \in {two(a, b) : a, b \in W!Statuses}
               \cup {[two(a, b) EXCEPT ![2].washer = "w2"] : a, b \in {"open", "resolved"}}
               \cup {[two("open", "resolved") EXCEPT ![2].note = n, ![2].evidence = e] :
                       n, e \in {None, "seen"}}
               \cup {[two("rejected", "blocked_authoritative_source")
                        EXCEPT ![2].needsSource = FALSE]}
               \cup {[two("open", s) EXCEPT ![2].issue = i, ![2].confidence = c] :
                       s \in {"open", "rejected", Null}, i \in {Null, "hole"}, c \in {1, 5}}
               \cup {[two("rejected", "rejected") EXCEPT ![1].washerData = {"thickness"}]}}
=============================================================================
