------------------------------ MODULE Builds1 ------------------------------
(***************************************************************************)
(* The registered GoatTracker 1 playroutines (_gt1_builds.py): of each the *)
(* facts by which a tune is packed behind it and found again. An operand   *)
(* is its position and the word assembled there; a playroutine's kept      *)
(* bytes are known by their weighted sums alone, its frequency table by    *)
(* its digest, of which two bytes stand for the table's two.               *)
(***************************************************************************)
EXTENDS Integers, SequencesExt

-----------------------------------------------------------------------------
(* The facts.                                                              *)

Build_1_53 ==
  [name |-> "1.53", family |-> "1.5", length |-> 1373, end |-> 1096, jumps |-> TRUE,
   freqhi |-> 1181, freqlo |-> 1277, author |-> 32 .. 63,
   freq |-> <<83, 45>>, sums |-> <<10430618, 9923672>>,
   params |-> <<147, 421, 612, 617>>,
   smc |-> {11, 71, 75, 92, 97, 102, 107, 109, 116, 209, 245, 581, 824, 910, 914},
   zeropage |-> {65, 68, 195, 371, 400, 446, 455, 474, 528, 533, 538, 559, 565, 571, 666, 669, 678,
     683, 699, 721, 811, 877, 884, 894, 902, 912, 916, 924, 932, 1089, 1092, 1094},
   relocs |-> {<<1, 4102>>, <<4, 4160>>, <<7, 4107>>, <<13, 4212>>, <<79, 4843>>, <<82, 4192>>,
     <<85, 4167>>, <<88, 4193>>, <<94, 4193>>, <<120, 5257>>, <<123, 4212>>, <<131, 5192>>,
     <<140, 4843>>, <<145, 5260>>, <<150, 5259>>, <<155, 5199>>, <<158, 5240>>, <<161, 4723>>,
     <<164, 5259>>, <<171, 5260>>, <<181, 5260>>, <<184, 18178>>, <<187, 5259>>, <<190, 5194>>,
     <<197, 5237>>, <<200, 4120>>, <<203, 4305>>, <<206, 5238>>, <<209, 4892>>, <<212, 4435>>,
     <<215, 5235>>, <<223, 5241>>, <<229, 5237>>, <<233, 4112>>, <<236, 4341>>, <<239, 5236>>,
     <<242, 5238>>, <<245, 5091>>, <<248, 5240>>, <<253, 5239>>, <<258, 5240>>, <<261, 5220>>,
     <<264, 5241>>, <<267, 16386>>, <<274, 5217>>, <<280, 16386>>, <<285, 5216>>, <<291, 16391>>,
     <<294, 5194>>, <<297, 16384>>, <<303, 5237>>, <<310, 16385>>, <<318, 5193>>, <<324, 16390>>,
     <<329, 4843>>, <<332, 4744>>, <<335, 5194>>, <<340, 16640>>, <<347, 5256>>, <<352, 5256>>,
     <<357, 5193>>, <<360, 16896>>, <<366, 5239>>, <<373, 16641>>, <<380, 16897>>, <<385, 5241>>,
     <<388, 16391>>, <<397, 5194>>, <<404, 5256>>, <<407, 5373>>, <<410, 5214>>, <<413, 5277>>,
     <<416, 5215>>, <<419, 5259>>, <<426, 5199>>, <<433, 4767>>, <<436, 5241>>, <<439, 16387>>,
     <<448, 5217>>, <<458, 5216>>, <<463, 5216>>, <<466, 16389>>, <<469, 4583>>, <<477, 5216>>,
     <<482, 5216>>, <<485, 16388>>, <<494, 5217>>, <<500, 4723>>, <<503, 5195>>, <<508, 5195>>,
     <<511, 5195>>, <<516, 5199>>, <<519, 4723>>, <<522, 5258>>, <<525, 17664>>, <<530, 17920>>,
     <<535, 5199>>, <<551, 4677>>, <<556, 4677>>, <<561, 5235>>, <<567, 5236>>, <<578, 5199>>,
     <<589, 5197>>, <<592, 5240>>, <<595, 5235>>, <<604, 5241>>, <<607, 16387>>, <<625, 5220>>,
     <<628, 5214>>, <<634, 5215>>, <<640, 5193>>, <<643, 5220>>, <<657, 4211>>, <<662, 4212>>,
     <<672, 5257>>, <<675, 17152>>, <<680, 17408>>, <<685, 5196>>, <<690, 5196>>, <<693, 4837>>,
     <<696, 5198>>, <<712, 5196>>, <<724, 4794>>, <<729, 5197>>, <<732, 4794>>, <<735, 5258>>,
     <<739, 5198>>, <<742, 5199>>, <<745, 4723>>, <<749, 18176>>, <<754, 4198>>, <<757, 18177>>,
     <<760, 4203>>, <<763, 18178>>, <<768, 4193>>, <<775, 18178>>, <<778, 4188>>, <<781, 18177>>,
     <<784, 4167>>, <<790, 18179>>, <<793, 4171>>, <<797, 5183>>, <<802, 5183>>, <<816, 4920>>,
     <<819, 5256>>, <<835, 5256>>, <<843, 4514>>, <<846, 5239>>, <<853, 5183>>, <<856, 5373>>,
     <<860, 5214>>, <<863, 5006>>, <<866, 5277>>, <<869, 5215>>, <<872, 5010>>, <<879, 5010>>,
     <<886, 5006>>, <<891, 5214>>, <<896, 5214>>, <<899, 5215>>, <<904, 5215>>, <<907, 4514>>,
     <<921, 5214>>, <<926, 5214>>, <<929, 5215>>, <<934, 5215>>, <<937, 4514>>, <<942, 5238>>,
     <<945, 4497>>, <<950, 5131>>, <<955, 5240>>, <<960, 5194>>, <<965, 4343>>, <<968, 5240>>,
     <<973, 5239>>, <<978, 5240>>, <<981, 4343>>, <<984, 4843>>, <<987, 4343>>, <<993, 4343>>,
     <<998, 5260>>, <<1001, 5267>>, <<1004, 5274>>, <<1007, 4343>>, <<1018, 5260>>, <<1021, 4343>>,
     <<1024, 5192>>, <<1027, 4343>>, <<1030, 4205>>, <<1033, 4343>>, <<1037, 5256>>, <<1049, 5256>>,
     <<1060, 5238>>, <<1071, 5238>>, <<1081, 5239>>, <<1085, 4502>>}]

Build_1_52 ==
  [name |-> "1.52", family |-> "1.5", length |-> 1372, end |-> 1095, jumps |-> TRUE,
   freqhi |-> 1180, freqlo |-> 1276, author |-> 32 .. 63,
   freq |-> <<83, 45>>, sums |-> <<10143816, 10193657>>,
   params |-> <<147, 420, 611, 616>>,
   smc |-> {11, 71, 75, 92, 97, 102, 107, 109, 116, 209, 245, 580, 823, 909, 913},
   zeropage |-> {65, 68, 195, 370, 399, 445, 454, 473, 527, 532, 537, 558, 564, 570, 665, 668, 677,
     682, 698, 720, 810, 876, 883, 893, 901, 911, 915, 923, 931, 1088, 1091, 1093},
   relocs |-> {<<1, 4102>>, <<4, 4160>>, <<7, 4107>>, <<13, 4212>>, <<79, 4842>>, <<82, 4192>>,
     <<85, 4167>>, <<88, 4193>>, <<94, 4193>>, <<120, 5256>>, <<123, 4212>>, <<131, 5191>>,
     <<140, 4842>>, <<145, 5259>>, <<150, 5258>>, <<155, 5198>>, <<158, 5239>>, <<161, 4722>>,
     <<164, 5258>>, <<171, 5259>>, <<181, 5259>>, <<184, 18178>>, <<187, 5258>>, <<190, 5193>>,
     <<197, 5236>>, <<200, 4120>>, <<203, 4305>>, <<206, 5237>>, <<209, 4891>>, <<212, 4434>>,
     <<215, 5234>>, <<223, 5240>>, <<229, 5236>>, <<233, 4112>>, <<236, 4341>>, <<239, 5235>>,
     <<242, 5237>>, <<245, 5090>>, <<248, 5239>>, <<253, 5238>>, <<258, 5239>>, <<261, 5219>>,
     <<264, 5240>>, <<267, 16386>>, <<275, 5216>>, <<284, 5215>>, <<290, 16391>>, <<293, 5193>>,
     <<296, 16384>>, <<302, 5236>>, <<309, 16385>>, <<317, 5192>>, <<323, 16390>>, <<328, 4842>>,
     <<331, 4743>>, <<334, 5193>>, <<339, 16640>>, <<346, 5255>>, <<351, 5255>>, <<356, 5192>>,
     <<359, 16896>>, <<365, 5238>>, <<372, 16641>>, <<379, 16897>>, <<384, 5240>>, <<387, 16391>>,
     <<396, 5193>>, <<403, 5255>>, <<406, 5372>>, <<409, 5213>>, <<412, 5276>>, <<415, 5214>>,
     <<418, 5258>>, <<425, 5198>>, <<432, 4766>>, <<435, 5240>>, <<438, 16387>>, <<447, 5216>>,
     <<457, 5215>>, <<462, 5215>>, <<465, 16389>>, <<468, 4582>>, <<476, 5215>>, <<481, 5215>>,
     <<484, 16388>>, <<493, 5216>>, <<499, 4722>>, <<502, 5194>>, <<507, 5194>>, <<510, 5194>>,
     <<515, 5198>>, <<518, 4722>>, <<521, 5257>>, <<524, 17664>>, <<529, 17920>>, <<534, 5198>>,
     <<550, 4676>>, <<555, 4676>>, <<560, 5234>>, <<566, 5235>>, <<577, 5198>>, <<588, 5196>>,
     <<591, 5239>>, <<594, 5234>>, <<603, 5240>>, <<606, 16387>>, <<624, 5219>>, <<627, 5213>>,
     <<633, 5214>>, <<639, 5192>>, <<642, 5219>>, <<656, 4211>>, <<661, 4212>>, <<671, 5256>>,
     <<674, 17152>>, <<679, 17408>>, <<684, 5195>>, <<689, 5195>>, <<692, 4836>>, <<695, 5197>>,
     <<711, 5195>>, <<723, 4793>>, <<728, 5196>>, <<731, 4793>>, <<734, 5257>>, <<738, 5197>>,
     <<741, 5198>>, <<744, 4722>>, <<748, 18176>>, <<753, 4198>>, <<756, 18177>>, <<759, 4203>>,
     <<762, 18178>>, <<767, 4193>>, <<774, 18178>>, <<777, 4188>>, <<780, 18177>>, <<783, 4167>>,
     <<789, 18179>>, <<792, 4171>>, <<796, 5182>>, <<801, 5182>>, <<815, 4919>>, <<818, 5255>>,
     <<834, 5255>>, <<842, 4513>>, <<845, 5238>>, <<852, 5182>>, <<855, 5372>>, <<859, 5213>>,
     <<862, 5005>>, <<865, 5276>>, <<868, 5214>>, <<871, 5009>>, <<878, 5009>>, <<885, 5005>>,
     <<890, 5213>>, <<895, 5213>>, <<898, 5214>>, <<903, 5214>>, <<906, 4513>>, <<920, 5213>>,
     <<925, 5213>>, <<928, 5214>>, <<933, 5214>>, <<936, 4513>>, <<941, 5237>>, <<944, 4496>>,
     <<949, 5130>>, <<954, 5239>>, <<959, 5193>>, <<964, 4343>>, <<967, 5239>>, <<972, 5238>>,
     <<977, 5239>>, <<980, 4343>>, <<983, 4842>>, <<986, 4343>>, <<992, 4343>>, <<997, 5259>>,
     <<1000, 5266>>, <<1003, 5273>>, <<1006, 4343>>, <<1017, 5259>>, <<1020, 4343>>, <<1023, 5191>>,
     <<1026, 4343>>, <<1029, 4205>>, <<1032, 4343>>, <<1036, 5255>>, <<1048, 5255>>, <<1059, 5237>>,
     <<1070, 5237>>, <<1080, 5238>>, <<1084, 4501>>}]

Build_1_51 ==
  [name |-> "1.51", family |-> "1.5", length |-> 1372, end |-> 1095, jumps |-> TRUE,
   freqhi |-> 1180, freqlo |-> 1276, author |-> 32 .. 63,
   freq |-> <<88, 169>>, sums |-> <<10143816, 10193657>>,
   params |-> <<147, 420, 611, 616>>,
   smc |-> {11, 71, 75, 92, 97, 102, 107, 109, 116, 209, 245, 580, 823, 909, 913},
   zeropage |-> {65, 68, 195, 370, 399, 445, 454, 473, 527, 532, 537, 558, 564, 570, 665, 668, 677,
     682, 698, 720, 810, 876, 883, 893, 901, 911, 915, 923, 931, 1088, 1091, 1093},
   relocs |-> {<<1, 4102>>, <<4, 4160>>, <<7, 4107>>, <<13, 4212>>, <<79, 4842>>, <<82, 4192>>,
     <<85, 4167>>, <<88, 4193>>, <<94, 4193>>, <<120, 5256>>, <<123, 4212>>, <<131, 5191>>,
     <<140, 4842>>, <<145, 5259>>, <<150, 5258>>, <<155, 5198>>, <<158, 5239>>, <<161, 4722>>,
     <<164, 5258>>, <<171, 5259>>, <<181, 5259>>, <<184, 18178>>, <<187, 5258>>, <<190, 5193>>,
     <<197, 5236>>, <<200, 4120>>, <<203, 4305>>, <<206, 5237>>, <<209, 4891>>, <<212, 4434>>,
     <<215, 5234>>, <<223, 5240>>, <<229, 5236>>, <<233, 4112>>, <<236, 4341>>, <<239, 5235>>,
     <<242, 5237>>, <<245, 5090>>, <<248, 5239>>, <<253, 5238>>, <<258, 5239>>, <<261, 5219>>,
     <<264, 5240>>, <<267, 16386>>, <<275, 5216>>, <<284, 5215>>, <<290, 16391>>, <<293, 5193>>,
     <<296, 16384>>, <<302, 5236>>, <<309, 16385>>, <<317, 5192>>, <<323, 16390>>, <<328, 4842>>,
     <<331, 4743>>, <<334, 5193>>, <<339, 16640>>, <<346, 5255>>, <<351, 5255>>, <<356, 5192>>,
     <<359, 16896>>, <<365, 5238>>, <<372, 16641>>, <<379, 16897>>, <<384, 5240>>, <<387, 16391>>,
     <<396, 5193>>, <<403, 5255>>, <<406, 5372>>, <<409, 5213>>, <<412, 5276>>, <<415, 5214>>,
     <<418, 5258>>, <<425, 5198>>, <<432, 4766>>, <<435, 5240>>, <<438, 16387>>, <<447, 5216>>,
     <<457, 5215>>, <<462, 5215>>, <<465, 16389>>, <<468, 4582>>, <<476, 5215>>, <<481, 5215>>,
     <<484, 16388>>, <<493, 5216>>, <<499, 4722>>, <<502, 5194>>, <<507, 5194>>, <<510, 5194>>,
     <<515, 5198>>, <<518, 4722>>, <<521, 5257>>, <<524, 17664>>, <<529, 17920>>, <<534, 5198>>,
     <<550, 4676>>, <<555, 4676>>, <<560, 5234>>, <<566, 5235>>, <<577, 5198>>, <<588, 5196>>,
     <<591, 5239>>, <<594, 5234>>, <<603, 5240>>, <<606, 16387>>, <<624, 5219>>, <<627, 5213>>,
     <<633, 5214>>, <<639, 5192>>, <<642, 5219>>, <<656, 4211>>, <<661, 4212>>, <<671, 5256>>,
     <<674, 17152>>, <<679, 17408>>, <<684, 5195>>, <<689, 5195>>, <<692, 4836>>, <<695, 5197>>,
     <<711, 5195>>, <<723, 4793>>, <<728, 5196>>, <<731, 4793>>, <<734, 5257>>, <<738, 5197>>,
     <<741, 5198>>, <<744, 4722>>, <<748, 18176>>, <<753, 4198>>, <<756, 18177>>, <<759, 4203>>,
     <<762, 18178>>, <<767, 4193>>, <<774, 18178>>, <<777, 4188>>, <<780, 18177>>, <<783, 4167>>,
     <<789, 18179>>, <<792, 4171>>, <<796, 5182>>, <<801, 5182>>, <<815, 4919>>, <<818, 5255>>,
     <<834, 5255>>, <<842, 4513>>, <<845, 5238>>, <<852, 5182>>, <<855, 5372>>, <<859, 5213>>,
     <<862, 5005>>, <<865, 5276>>, <<868, 5214>>, <<871, 5009>>, <<878, 5009>>, <<885, 5005>>,
     <<890, 5213>>, <<895, 5213>>, <<898, 5214>>, <<903, 5214>>, <<906, 4513>>, <<920, 5213>>,
     <<925, 5213>>, <<928, 5214>>, <<933, 5214>>, <<936, 4513>>, <<941, 5237>>, <<944, 4496>>,
     <<949, 5130>>, <<954, 5239>>, <<959, 5193>>, <<964, 4343>>, <<967, 5239>>, <<972, 5238>>,
     <<977, 5239>>, <<980, 4343>>, <<983, 4842>>, <<986, 4343>>, <<992, 4343>>, <<997, 5259>>,
     <<1000, 5266>>, <<1003, 5273>>, <<1006, 4343>>, <<1017, 5259>>, <<1020, 4343>>, <<1023, 5191>>,
     <<1026, 4343>>, <<1029, 4205>>, <<1032, 4343>>, <<1036, 5255>>, <<1048, 5255>>, <<1059, 5237>>,
     <<1070, 5237>>, <<1080, 5238>>, <<1084, 4501>>}]

Build_1_50b ==
  [name |-> "1.50b", family |-> "1.5", length |-> 1371, end |-> 1092, jumps |-> TRUE,
   freqhi |-> 1179, freqlo |-> 1275, author |-> 32 .. 63,
   freq |-> <<88, 169>>, sums |-> <<9954003, 10285976>>,
   params |-> <<147, 420, 611, 616>>,
   smc |-> {11, 71, 75, 92, 97, 102, 107, 109, 116, 209, 245, 580, 820, 906, 910},
   zeropage |-> {65, 68, 195, 370, 399, 445, 454, 473, 527, 532, 537, 558, 564, 570, 665, 668, 677,
     682, 698, 720, 807, 873, 880, 890, 898, 908, 912, 920, 928, 1085, 1088, 1090},
   relocs |-> {<<1, 4102>>, <<4, 4160>>, <<7, 4107>>, <<13, 4212>>, <<79, 4842>>, <<82, 4192>>,
     <<85, 4167>>, <<88, 4193>>, <<94, 4193>>, <<120, 5255>>, <<123, 4212>>, <<131, 5190>>,
     <<140, 4842>>, <<145, 5258>>, <<150, 5257>>, <<155, 5197>>, <<158, 5238>>, <<161, 4722>>,
     <<164, 5257>>, <<171, 5258>>, <<181, 5258>>, <<184, 5188>>, <<187, 5257>>, <<190, 5192>>,
     <<197, 5235>>, <<200, 4120>>, <<203, 4305>>, <<206, 5236>>, <<209, 4888>>, <<212, 4434>>,
     <<215, 5233>>, <<223, 5239>>, <<229, 5235>>, <<233, 4112>>, <<236, 4341>>, <<239, 5234>>,
     <<242, 5236>>, <<245, 5087>>, <<248, 5238>>, <<253, 5237>>, <<258, 5238>>, <<261, 5218>>,
     <<264, 5239>>, <<267, 16386>>, <<275, 5215>>, <<284, 5214>>, <<290, 16391>>, <<293, 5192>>,
     <<296, 16384>>, <<302, 5235>>, <<309, 16385>>, <<317, 5191>>, <<323, 16390>>, <<328, 4842>>,
     <<331, 4743>>, <<334, 5192>>, <<339, 16640>>, <<346, 5254>>, <<351, 5254>>, <<356, 5191>>,
     <<359, 16896>>, <<365, 5237>>, <<372, 16641>>, <<379, 16897>>, <<384, 5239>>, <<387, 16391>>,
     <<396, 5192>>, <<403, 5254>>, <<406, 5371>>, <<409, 5212>>, <<412, 5275>>, <<415, 5213>>,
     <<418, 5257>>, <<425, 5197>>, <<432, 4766>>, <<435, 5239>>, <<438, 16387>>, <<447, 5215>>,
     <<457, 5214>>, <<462, 5214>>, <<465, 16389>>, <<468, 4582>>, <<476, 5214>>, <<481, 5214>>,
     <<484, 16388>>, <<493, 5215>>, <<499, 4722>>, <<502, 5193>>, <<507, 5193>>, <<510, 5193>>,
     <<515, 5197>>, <<518, 4722>>, <<521, 5256>>, <<524, 17664>>, <<529, 17920>>, <<534, 5197>>,
     <<550, 4676>>, <<555, 4676>>, <<560, 5233>>, <<566, 5234>>, <<577, 5197>>, <<588, 5195>>,
     <<591, 5238>>, <<594, 5233>>, <<603, 5239>>, <<606, 16387>>, <<624, 5218>>, <<627, 5212>>,
     <<633, 5213>>, <<639, 5191>>, <<642, 5218>>, <<656, 4211>>, <<661, 4212>>, <<671, 5255>>,
     <<674, 17152>>, <<679, 17408>>, <<684, 5194>>, <<689, 5194>>, <<692, 4836>>, <<695, 5196>>,
     <<711, 5194>>, <<723, 4793>>, <<728, 5195>>, <<731, 4793>>, <<734, 5256>>, <<738, 5196>>,
     <<741, 5197>>, <<744, 4722>>, <<748, 18176>>, <<753, 4198>>, <<756, 18177>>, <<759, 4203>>,
     <<762, 18178>>, <<767, 4193>>, <<774, 18178>>, <<777, 4188>>, <<780, 18177>>, <<783, 4167>>,
     <<786, 18179>>, <<789, 4171>>, <<793, 5179>>, <<798, 5179>>, <<812, 4916>>, <<815, 5254>>,
     <<831, 5254>>, <<839, 4513>>, <<842, 5237>>, <<849, 5179>>, <<852, 5371>>, <<856, 5212>>,
     <<859, 5002>>, <<862, 5275>>, <<865, 5213>>, <<868, 5006>>, <<875, 5006>>, <<882, 5002>>,
     <<887, 5212>>, <<892, 5212>>, <<895, 5213>>, <<900, 5213>>, <<903, 4513>>, <<917, 5212>>,
     <<922, 5212>>, <<925, 5213>>, <<930, 5213>>, <<933, 4513>>, <<938, 5236>>, <<941, 4496>>,
     <<946, 5127>>, <<951, 5238>>, <<956, 5192>>, <<961, 4343>>, <<964, 5238>>, <<969, 5237>>,
     <<974, 5238>>, <<977, 4343>>, <<980, 4842>>, <<983, 4343>>, <<989, 4343>>, <<994, 5258>>,
     <<997, 5265>>, <<1000, 5272>>, <<1003, 4343>>, <<1014, 5258>>, <<1017, 4343>>, <<1020, 5190>>,
     <<1023, 4343>>, <<1026, 4205>>, <<1029, 4343>>, <<1033, 5254>>, <<1045, 5254>>, <<1056, 5236>>,
     <<1067, 5236>>, <<1077, 5237>>, <<1081, 4501>>}]

Build_1_50 ==
  [name |-> "1.50", family |-> "1.5", length |-> 1370, end |-> 1091, jumps |-> TRUE,
   freqhi |-> 1178, freqlo |-> 1274, author |-> 32 .. 63,
   freq |-> <<88, 169>>, sums |-> <<9836489, 10366549>>,
   params |-> <<147, 420, 611, 616>>,
   smc |-> {11, 71, 75, 92, 97, 102, 107, 109, 116, 209, 245, 580, 819, 905, 909},
   zeropage |-> {65, 68, 195, 370, 399, 445, 454, 473, 527, 532, 537, 558, 564, 570, 665, 668, 677,
     682, 698, 727, 735, 806, 872, 879, 889, 897, 907, 911, 919, 927, 1084, 1087, 1089},
   relocs |-> {<<1, 4102>>, <<4, 4160>>, <<7, 4107>>, <<13, 4212>>, <<79, 4841>>, <<82, 4192>>,
     <<85, 4167>>, <<88, 4193>>, <<94, 4193>>, <<120, 5254>>, <<123, 4212>>, <<131, 5189>>,
     <<140, 4841>>, <<145, 5257>>, <<150, 5256>>, <<155, 5196>>, <<158, 5237>>, <<161, 4722>>,
     <<164, 5256>>, <<171, 5257>>, <<181, 5257>>, <<184, 5187>>, <<187, 5256>>, <<190, 5191>>,
     <<197, 5234>>, <<200, 4120>>, <<203, 4305>>, <<206, 5235>>, <<209, 4887>>, <<212, 4434>>,
     <<215, 5232>>, <<223, 5238>>, <<229, 5234>>, <<233, 4112>>, <<236, 4341>>, <<239, 5233>>,
     <<242, 5235>>, <<245, 5086>>, <<248, 5237>>, <<253, 5236>>, <<258, 5237>>, <<261, 5217>>,
     <<264, 5238>>, <<267, 16386>>, <<275, 5214>>, <<284, 5213>>, <<290, 16391>>, <<293, 5191>>,
     <<296, 16384>>, <<302, 5234>>, <<309, 16385>>, <<317, 5190>>, <<323, 16390>>, <<328, 4841>>,
     <<331, 4743>>, <<334, 5191>>, <<339, 16640>>, <<346, 5253>>, <<351, 5253>>, <<356, 5190>>,
     <<359, 16896>>, <<365, 5236>>, <<372, 16641>>, <<379, 16897>>, <<384, 5238>>, <<387, 16391>>,
     <<396, 5191>>, <<403, 5253>>, <<406, 5370>>, <<409, 5211>>, <<412, 5274>>, <<415, 5212>>,
     <<418, 5256>>, <<425, 5196>>, <<432, 4766>>, <<435, 5238>>, <<438, 16387>>, <<447, 5214>>,
     <<457, 5213>>, <<462, 5213>>, <<465, 16389>>, <<468, 4582>>, <<476, 5213>>, <<481, 5213>>,
     <<484, 16388>>, <<493, 5214>>, <<499, 4722>>, <<502, 5192>>, <<507, 5192>>, <<510, 5192>>,
     <<515, 5196>>, <<518, 4722>>, <<521, 5255>>, <<524, 17664>>, <<529, 17920>>, <<534, 5196>>,
     <<550, 4676>>, <<555, 4676>>, <<560, 5232>>, <<566, 5233>>, <<577, 5196>>, <<588, 5194>>,
     <<591, 5237>>, <<594, 5232>>, <<603, 5238>>, <<606, 16387>>, <<624, 5217>>, <<627, 5211>>,
     <<633, 5212>>, <<639, 5190>>, <<642, 5217>>, <<656, 4211>>, <<661, 4212>>, <<671, 5254>>,
     <<674, 17152>>, <<679, 17408>>, <<684, 5193>>, <<689, 5193>>, <<692, 4835>>, <<695, 5195>>,
     <<711, 5193>>, <<718, 5194>>, <<721, 4793>>, <<724, 5255>>, <<737, 5195>>, <<740, 5196>>,
     <<743, 4722>>, <<747, 18176>>, <<752, 4198>>, <<755, 18177>>, <<758, 4203>>, <<761, 18178>>,
     <<766, 4193>>, <<773, 18178>>, <<776, 4188>>, <<779, 18177>>, <<782, 4167>>, <<785, 18179>>,
     <<788, 4171>>, <<792, 5178>>, <<797, 5178>>, <<811, 4915>>, <<814, 5253>>, <<830, 5253>>,
     <<838, 4513>>, <<841, 5236>>, <<848, 5178>>, <<851, 5370>>, <<855, 5211>>, <<858, 5001>>,
     <<861, 5274>>, <<864, 5212>>, <<867, 5005>>, <<874, 5005>>, <<881, 5001>>, <<886, 5211>>,
     <<891, 5211>>, <<894, 5212>>, <<899, 5212>>, <<902, 4513>>, <<916, 5211>>, <<921, 5211>>,
     <<924, 5212>>, <<929, 5212>>, <<932, 4513>>, <<937, 5235>>, <<940, 4496>>, <<945, 5126>>,
     <<950, 5237>>, <<955, 5191>>, <<960, 4343>>, <<963, 5237>>, <<968, 5236>>, <<973, 5237>>,
     <<976, 4343>>, <<979, 4841>>, <<982, 4343>>, <<988, 4343>>, <<993, 5257>>, <<996, 5264>>,
     <<999, 5271>>, <<1002, 4343>>, <<1013, 5257>>, <<1016, 4343>>, <<1019, 5189>>, <<1022, 4343>>,
     <<1025, 4205>>, <<1028, 4343>>, <<1032, 5253>>, <<1044, 5253>>, <<1055, 5235>>, <<1066, 5235>>,
     <<1076, 5236>>, <<1080, 4501>>}]

Build_11_1 ==
  [name |-> "11.1", family |-> "11", length |-> 1126, end |-> 856, jumps |-> TRUE,
   freqhi |-> 856, freqlo |-> 952, author |-> 32 .. 31,
   freq |-> <<88, 169>>, sums |-> <<8930298, 8485607>>,
   params |-> <<>>,
   smc |-> {17, 89, 91, 99, 104, 106, 328, 519},
   zeropage |-> {145, 150, 152, 159, 162, 220, 225, 230, 243, 247, 249, 258, 266, 272, 285, 409,
     417, 544, 573, 706, 712, 716, 723, 747, 804, 832},
   relocs |-> {<<1, 4106>>, <<4, 4110>>, <<7, 4202>>, <<11, 4113>>, <<22, 4113>>, <<26, 24576>>,
     <<29, 5201>>, <<32, 28672>>, <<35, 5202>>, <<41, 5186>>, <<44, 5181>>, <<47, 5183>>,
     <<55, 5205>>, <<58, 5206>>, <<61, 5162>>, <<66, 5203>>, <<69, 4113>>, <<72, 5207>>,
     <<81, 4195>>, <<84, 4187>>, <<93, 4185>>, <<111, 5205>>, <<118, 5206>>, <<123, 5205>>,
     <<126, 5203>>, <<133, 4486>>, <<136, 5203>>, <<139, 5186>>, <<142, 5201>>, <<147, 5202>>,
     <<164, 5204>>, <<169, 5186>>, <<172, 5162>>, <<177, 4426>>, <<180, 4595>>, <<183, 5162>>,
     <<188, 5162>>, <<196, 5203>>, <<201, 5162>>, <<204, 5163>>, <<211, 5205>>, <<214, 5204>>,
     <<217, 32768>>, <<222, 36864>>, <<227, 5203>>, <<255, 5165>>, <<262, 5163>>, <<268, 5164>>,
     <<279, 5203>>, <<282, 5163>>, <<293, 5159>>, <<302, 5162>>, <<311, 5180>>, <<319, 5144>>,
     <<322, 4424>>, <<325, 5164>>, <<328, 4762>>, <<333, 5162>>, <<338, 5184>>, <<341, 5185>>,
     <<344, 5165>>, <<347, 16390>>, <<352, 4185>>, <<359, 4200>>, <<362, 16386>>, <<367, 5182>>,
     <<380, 5183>>, <<385, 5183>>, <<388, 4745>>, <<391, 5162>>, <<396, 5165>>, <<399, 5183>>,
     <<406, 5183>>, <<411, 16391>>, <<414, 20480>>, <<419, 5180>>, <<425, 16384>>, <<431, 16385>>,
     <<437, 16391>>, <<444, 5182>>, <<449, 16387>>, <<454, 5182>>, <<465, 16389>>, <<474, 16387>>,
     <<479, 5182>>, <<490, 16388>>, <<497, 5183>>, <<500, 5181>>, <<505, 5163>>, <<510, 5151>>,
     <<513, 4615>>, <<516, 5164>>, <<519, 4800>>, <<522, 20480>>, <<527, 5180>>, <<533, 20736>>,
     <<539, 5159>>, <<546, 20481>>, <<553, 20737>>, <<558, 5165>>, <<561, 16391>>, <<570, 5181>>,
     <<577, 5164>>, <<584, 5205>>, <<592, 5184>>, <<599, 5159>>, <<609, 5159>>, <<623, 5159>>,
     <<629, 5184>>, <<632, 5048>>, <<635, 5160>>, <<641, 4952>>, <<644, 5161>>, <<650, 5207>>,
     <<656, 4206>>, <<662, 5185>>, <<667, 4195>>, <<670, 4745>>, <<673, 4187>>, <<676, 4745>>,
     <<682, 4745>>, <<687, 5206>>, <<690, 5213>>, <<693, 5220>>, <<700, 5206>>, <<718, 5185>>,
     <<729, 4830>>, <<735, 5185>>, <<743, 5159>>, <<751, 5161>>, <<754, 4952>>, <<763, 5160>>,
     <<766, 5048>>, <<773, 5161>>, <<776, 4952>>, <<785, 5160>>, <<788, 5048>>, <<795, 4727>>,
     <<798, 5160>>, <<806, 5160>>, <<809, 5161>>, <<817, 5161>>, <<820, 5207>>, <<826, 5160>>,
     <<834, 5160>>, <<837, 5161>>, <<845, 5161>>, <<848, 5207>>, <<854, 4206>>}]

Build_11_2 ==
  [name |-> "11.2", family |-> "11", length |-> 1288, end |-> 1016, jumps |-> TRUE,
   freqhi |-> 1096, freqlo |-> 1192, author |-> 32 .. 31,
   freq |-> <<88, 169>>, sums |-> <<10708390, 10258953>>,
   params |-> <<>>,
   smc |-> {15, 87, 89, 97, 102, 104, 324, 514},
   zeropage |-> {140, 145, 147, 154, 211, 216, 221, 234, 238, 240, 249, 257, 263, 281, 416, 424,
     539, 568, 722, 728, 732, 739, 763, 820, 845, 870, 875, 920, 922, 950, 953, 973, 979, 985},
   relocs |-> {<<1, 5085>>, <<4, 4108>>, <<7, 5089>>, <<10, 5093>>, <<20, 4111>>, <<24, 24576>>,
     <<27, 5169>>, <<30, 28672>>, <<33, 5170>>, <<39, 5154>>, <<42, 5149>>, <<45, 5151>>,
     <<53, 5173>>, <<56, 5174>>, <<59, 5130>>, <<64, 5171>>, <<67, 4111>>, <<70, 5175>>,
     <<79, 4193>>, <<82, 4185>>, <<91, 4183>>, <<109, 5173>>, <<116, 5174>>, <<121, 5173>>,
     <<124, 5171>>, <<131, 4482>>, <<134, 5154>>, <<137, 5169>>, <<142, 5170>>, <<156, 4262>>,
     <<159, 5172>>, <<162, 5171>>, <<167, 5154>>, <<171, 4483>>, <<174, 5130>>, <<179, 5130>>,
     <<187, 5171>>, <<192, 5130>>, <<195, 5131>>, <<202, 5173>>, <<205, 5172>>, <<208, 32768>>,
     <<213, 36864>>, <<218, 5171>>, <<246, 5133>>, <<253, 5131>>, <<259, 5132>>, <<270, 5171>>,
     <<273, 5131>>, <<276, 5127>>, <<289, 5127>>, <<298, 5130>>, <<307, 5148>>, <<315, 5112>>,
     <<318, 4420>>, <<321, 5132>>, <<324, 4774>>, <<329, 5130>>, <<334, 5152>>, <<337, 5153>>,
     <<340, 5133>>, <<343, 16390>>, <<348, 4183>>, <<355, 4198>>, <<358, 16386>>, <<363, 5150>>,
     <<376, 5151>>, <<381, 5151>>, <<384, 4749>>, <<388, 5133>>, <<391, 5130>>, <<396, 5127>>,
     <<401, 4959>>, <<406, 5151>>, <<413, 5151>>, <<418, 16391>>, <<421, 20480>>, <<426, 5148>>,
     <<432, 16384>>, <<438, 16385>>, <<444, 16391>>, <<451, 5150>>, <<456, 16387>>, <<461, 5150>>,
     <<466, 16389>>, <<475, 16387>>, <<480, 5150>>, <<485, 16388>>, <<492, 5151>>, <<495, 5149>>,
     <<500, 5131>>, <<505, 5119>>, <<508, 4610>>, <<511, 5132>>, <<514, 4816>>, <<517, 20480>>,
     <<522, 5148>>, <<528, 20736>>, <<534, 5127>>, <<541, 20481>>, <<548, 20737>>, <<553, 5133>>,
     <<556, 16391>>, <<565, 5149>>, <<572, 5132>>, <<579, 5173>>, <<587, 5152>>, <<594, 5127>>,
     <<604, 5127>>, <<618, 5127>>, <<624, 5152>>, <<627, 5288>>, <<630, 5128>>, <<636, 5192>>,
     <<639, 5129>>, <<645, 5150>>, <<654, 5175>>, <<660, 4204>>, <<664, 5127>>, <<669, 4959>>,
     <<674, 5153>>, <<679, 4193>>, <<682, 4759>>, <<685, 4185>>, <<688, 4759>>, <<691, 5127>>,
     <<703, 5174>>, <<706, 5181>>, <<709, 5188>>, <<716, 5174>>, <<734, 5153>>, <<745, 4846>>,
     <<751, 5153>>, <<759, 5127>>, <<767, 5129>>, <<770, 5192>>, <<779, 5128>>, <<782, 5288>>,
     <<789, 5129>>, <<792, 5192>>, <<801, 5128>>, <<804, 5288>>, <<811, 4722>>, <<814, 5128>>,
     <<822, 5128>>, <<825, 5129>>, <<833, 5129>>, <<836, 4740>>, <<839, 5128>>, <<847, 5128>>,
     <<850, 5129>>, <<858, 5129>>, <<861, 4740>>, <<867, 5128>>, <<872, 5129>>, <<881, 5127>>,
     <<886, 5151>>, <<889, 5149>>, <<892, 5148>>, <<904, 4749>>, <<907, 5148>>, <<915, 5148>>,
     <<926, 5127>>, <<938, 5288>>, <<944, 5192>>, <<968, 5127>>, <<987, 4743>>, <<990, 4111>>,
     <<994, 4200>>, <<999, 5189>>, <<1005, 5127>>, <<1009, 5128>>, <<1013, 5129>>}]

Build_11_3 ==
  [name |-> "11.3", family |-> "11", length |-> 1172, end |-> 917, jumps |-> TRUE,
   freqhi |-> 938, freqlo |-> 1034, author |-> 32 .. 63,
   freq |-> <<88, 169>>, sums |-> <<9370141, 9327513>>,
   params |-> <<>>,
   smc |-> {67, 75, 77, 85, 90, 92, 314, 505},
   zeropage |-> {131, 136, 138, 145, 148, 206, 211, 216, 229, 233, 235, 244, 252, 258, 271, 395,
     403, 530, 559, 695, 700, 706, 710, 717, 741, 798, 826},
   relocs |-> {<<1, 4105>>, <<4, 4160>>, <<7, 4109>>, <<10, 4163>>, <<14, 4188>>, <<71, 4946>>,
     <<79, 4171>>, <<97, 5251>>, <<104, 5252>>, <<109, 5251>>, <<112, 5249>>, <<119, 4472>>,
     <<122, 5249>>, <<125, 5232>>, <<128, 5247>>, <<133, 5248>>, <<150, 5250>>, <<155, 5232>>,
     <<158, 5016>>, <<163, 4412>>, <<166, 4581>>, <<169, 5016>>, <<174, 5016>>, <<182, 5249>>,
     <<187, 5016>>, <<190, 5017>>, <<197, 5251>>, <<200, 5250>>, <<203, 32768>>, <<208, 36864>>,
     <<213, 5249>>, <<241, 5019>>, <<248, 5017>>, <<254, 5018>>, <<265, 5249>>, <<268, 5017>>,
     <<279, 5013>>, <<288, 5016>>, <<297, 5226>>, <<305, 4113>>, <<308, 4410>>, <<311, 5018>>,
     <<314, 4748>>, <<319, 5016>>, <<324, 5230>>, <<327, 5231>>, <<330, 5019>>, <<333, 16390>>,
     <<338, 4171>>, <<345, 4186>>, <<348, 16386>>, <<353, 5228>>, <<366, 5229>>, <<371, 5229>>,
     <<374, 4731>>, <<377, 5016>>, <<382, 5019>>, <<385, 5229>>, <<392, 5229>>, <<397, 16391>>,
     <<400, 20480>>, <<405, 5226>>, <<411, 16384>>, <<417, 16385>>, <<423, 16391>>, <<430, 5228>>,
     <<435, 16387>>, <<440, 5228>>, <<451, 16389>>, <<460, 16387>>, <<465, 5228>>, <<476, 16388>>,
     <<483, 5229>>, <<486, 5227>>, <<491, 5017>>, <<496, 4120>>, <<499, 4601>>, <<502, 5018>>,
     <<505, 4794>>, <<508, 20480>>, <<513, 5226>>, <<519, 20736>>, <<525, 5013>>, <<532, 20481>>,
     <<539, 20737>>, <<544, 5019>>, <<547, 16391>>, <<556, 5227>>, <<563, 5018>>, <<570, 5251>>,
     <<578, 5230>>, <<585, 5013>>, <<595, 5013>>, <<609, 5013>>, <<615, 5230>>, <<618, 5130>>,
     <<621, 5014>>, <<627, 5034>>, <<630, 5015>>, <<636, 5253>>, <<642, 4192>>, <<648, 5231>>,
     <<653, 4181>>, <<656, 4731>>, <<659, 4173>>, <<662, 4731>>, <<668, 4731>>, <<673, 5252>>,
     <<676, 5259>>, <<679, 5266>>, <<690, 5252>>, <<712, 5231>>, <<723, 4824>>, <<729, 5231>>,
     <<737, 5013>>, <<745, 5015>>, <<748, 5034>>, <<757, 5014>>, <<760, 5130>>, <<767, 5015>>,
     <<770, 5034>>, <<779, 5014>>, <<782, 5130>>, <<789, 4713>>, <<792, 5014>>, <<800, 5014>>,
     <<803, 5015>>, <<811, 5015>>, <<814, 5253>>, <<820, 5014>>, <<828, 5014>>, <<831, 5015>>,
     <<839, 5015>>, <<842, 5253>>, <<848, 4192>>, <<852, 4163>>, <<856, 24576>>, <<859, 5247>>,
     <<862, 28672>>, <<865, 5248>>, <<871, 5232>>, <<874, 5227>>, <<877, 5229>>, <<885, 5251>>,
     <<888, 5252>>, <<891, 5016>>, <<896, 5249>>, <<899, 4163>>, <<902, 5253>>, <<911, 4181>>,
     <<914, 4173>>}]

Build_11_4 ==
  [name |-> "11.4", family |-> "11", length |-> 1328, end |-> 1056, jumps |-> TRUE,
   freqhi |-> 1056, freqlo |-> 1152, author |-> 32 .. 63,
   freq |-> <<88, 169>>, sums |-> <<10828376, 10540511>>,
   params |-> <<>>,
   smc |-> {67, 75, 77, 85, 90, 92, 312, 502},
   zeropage |-> {128, 133, 135, 142, 199, 204, 209, 222, 226, 228, 237, 245, 251, 269, 404, 412,
     527, 556, 713, 718, 724, 728, 735, 759, 816, 841, 866, 871, 916, 918, 946, 949, 969, 975, 981},
   relocs |-> {<<1, 4124>>, <<4, 4160>>, <<7, 5148>>, <<11, 5400>>, <<17, 5344>>, <<21, 5345>>,
     <<25, 5346>>, <<29, 4163>>, <<71, 5081>>, <<79, 4171>>, <<97, 5384>>, <<104, 5385>>,
     <<109, 5384>>, <<112, 5382>>, <<119, 4470>>, <<122, 5409>>, <<125, 5380>>, <<130, 5381>>,
     <<144, 4250>>, <<147, 5383>>, <<150, 5382>>, <<155, 5409>>, <<159, 4471>>, <<162, 5347>>,
     <<167, 5347>>, <<175, 5382>>, <<180, 5347>>, <<183, 5348>>, <<190, 5384>>, <<193, 5383>>,
     <<196, 32768>>, <<201, 36864>>, <<206, 5382>>, <<234, 5350>>, <<241, 5348>>, <<247, 5349>>,
     <<258, 5382>>, <<261, 5348>>, <<264, 5344>>, <<277, 5344>>, <<286, 5347>>, <<295, 5403>>,
     <<303, 5365>>, <<306, 4408>>, <<309, 5349>>, <<312, 4762>>, <<317, 5347>>, <<322, 5407>>,
     <<325, 5408>>, <<328, 5350>>, <<331, 16390>>, <<336, 4171>>, <<343, 4186>>, <<346, 16386>>,
     <<351, 5405>>, <<364, 5406>>, <<369, 5406>>, <<372, 4737>>, <<376, 5350>>, <<379, 5347>>,
     <<384, 5344>>, <<389, 4955>>, <<394, 5406>>, <<401, 5406>>, <<406, 16391>>, <<409, 20480>>,
     <<414, 5403>>, <<420, 16384>>, <<426, 16385>>, <<432, 16391>>, <<439, 5405>>, <<444, 16387>>,
     <<449, 5405>>, <<454, 16389>>, <<463, 16387>>, <<468, 5405>>, <<473, 16388>>, <<480, 5406>>,
     <<483, 5404>>, <<488, 5348>>, <<493, 5372>>, <<496, 4598>>, <<499, 5349>>, <<502, 4812>>,
     <<505, 20480>>, <<510, 5403>>, <<516, 20736>>, <<522, 5344>>, <<529, 20481>>, <<536, 20737>>,
     <<541, 5350>>, <<544, 16391>>, <<553, 5404>>, <<560, 5349>>, <<567, 5384>>, <<575, 5407>>,
     <<582, 5344>>, <<592, 5344>>, <<606, 5344>>, <<612, 5407>>, <<615, 5248>>, <<618, 5345>>,
     <<624, 5152>>, <<627, 5346>>, <<633, 5405>>, <<642, 5386>>, <<648, 4192>>, <<652, 5344>>,
     <<657, 4955>>, <<662, 5408>>, <<667, 4181>>, <<670, 4747>>, <<673, 4173>>, <<676, 4747>>,
     <<679, 5344>>, <<691, 5385>>, <<694, 5392>>, <<697, 5399>>, <<708, 5385>>, <<730, 5408>>,
     <<741, 4842>>, <<747, 5408>>, <<755, 5344>>, <<763, 5346>>, <<766, 5152>>, <<775, 5345>>,
     <<778, 5248>>, <<785, 5346>>, <<788, 5152>>, <<797, 5345>>, <<800, 5248>>, <<807, 4710>>,
     <<810, 5345>>, <<818, 5345>>, <<821, 5346>>, <<829, 5346>>, <<832, 4728>>, <<835, 5345>>,
     <<843, 5345>>, <<846, 5346>>, <<854, 5346>>, <<857, 4728>>, <<863, 5345>>, <<868, 5346>>,
     <<877, 5344>>, <<882, 5406>>, <<885, 5404>>, <<888, 5403>>, <<900, 4737>>, <<903, 5403>>,
     <<911, 5403>>, <<922, 5344>>, <<934, 5248>>, <<940, 5152>>, <<964, 5344>>, <<983, 4731>>,
     <<987, 4163>>, <<991, 24576>>, <<994, 5380>>, <<997, 28672>>, <<1000, 5381>>, <<1006, 5409>>,
     <<1009, 5404>>, <<1012, 5406>>, <<1020, 5384>>, <<1023, 5385>>, <<1026, 5347>>, <<1031, 5382>>,
     <<1034, 4163>>, <<1037, 5386>>, <<1046, 4181>>, <<1049, 4173>>, <<1053, 4188>>}]

Build_11_5 ==
  [name |-> "11.5", family |-> "11", length |-> 1190, end |-> 935, jumps |-> TRUE,
   freqhi |-> 956, freqlo |-> 1052, author |-> 32 .. 64,
   freq |-> <<88, 169>>, sums |-> <<9539201, 9199407>>,
   params |-> <<>>,
   smc |-> {68, 76, 78, 86, 91, 93, 321, 523},
   zeropage |-> {132, 137, 139, 146, 149, 207, 212, 217, 230, 234, 236, 245, 253, 259, 272, 413,
     421, 548, 577, 713, 718, 724, 728, 735, 759, 816, 844},
   relocs |-> {<<1, 4105>>, <<4, 4161>>, <<7, 4109>>, <<10, 4164>>, <<14, 4189>>, <<72, 4964>>,
     <<80, 4172>>, <<98, 5269>>, <<105, 5270>>, <<110, 5269>>, <<113, 5267>>, <<120, 4490>>,
     <<123, 5267>>, <<126, 5250>>, <<129, 5265>>, <<134, 5266>>, <<151, 5268>>, <<156, 5250>>,
     <<159, 5034>>, <<164, 4419>>, <<167, 4599>>, <<170, 5034>>, <<175, 5034>>, <<183, 5267>>,
     <<188, 5034>>, <<191, 5035>>, <<198, 5269>>, <<201, 5268>>, <<204, 32768>>, <<209, 36864>>,
     <<214, 5267>>, <<242, 5037>>, <<249, 5035>>, <<255, 5036>>, <<266, 5267>>, <<269, 5035>>,
     <<280, 5031>>, <<287, 4160>>, <<290, 5248>>, <<295, 5034>>, <<304, 5244>>, <<312, 4113>>,
     <<315, 4417>>, <<318, 5036>>, <<321, 4766>>, <<324, 5248>>, <<329, 5248>>, <<332, 4749>>,
     <<337, 5034>>, <<342, 5248>>, <<345, 5249>>, <<348, 5037>>, <<351, 16390>>, <<356, 4172>>,
     <<363, 4187>>, <<366, 16386>>, <<371, 5246>>, <<384, 5247>>, <<389, 5247>>, <<392, 4749>>,
     <<395, 5034>>, <<400, 5037>>, <<403, 5247>>, <<410, 5247>>, <<415, 16391>>, <<418, 20480>>,
     <<423, 5244>>, <<429, 16384>>, <<435, 16385>>, <<441, 16391>>, <<448, 5246>>, <<453, 16387>>,
     <<458, 5246>>, <<469, 16389>>, <<478, 16387>>, <<483, 5246>>, <<494, 16388>>, <<501, 5247>>,
     <<504, 5245>>, <<509, 5035>>, <<514, 4120>>, <<517, 4619>>, <<520, 5036>>, <<523, 4812>>,
     <<526, 20480>>, <<531, 5244>>, <<537, 20736>>, <<543, 5031>>, <<550, 20481>>, <<557, 20737>>,
     <<562, 5037>>, <<565, 16391>>, <<574, 5245>>, <<581, 5036>>, <<588, 5269>>, <<596, 5248>>,
     <<603, 5031>>, <<613, 5031>>, <<627, 5031>>, <<633, 5248>>, <<636, 5148>>, <<639, 5032>>,
     <<645, 5052>>, <<648, 5033>>, <<654, 5271>>, <<660, 4193>>, <<666, 5249>>, <<671, 4182>>,
     <<674, 4749>>, <<677, 4174>>, <<680, 4749>>, <<686, 4749>>, <<691, 5270>>, <<694, 5277>>,
     <<697, 5284>>, <<708, 5270>>, <<730, 5249>>, <<741, 4842>>, <<747, 5249>>, <<755, 5031>>,
     <<763, 5033>>, <<766, 5052>>, <<775, 5032>>, <<778, 5148>>, <<785, 5033>>, <<788, 5052>>,
     <<797, 5032>>, <<800, 5148>>, <<807, 4731>>, <<810, 5032>>, <<818, 5032>>, <<821, 5033>>,
     <<829, 5033>>, <<832, 5271>>, <<838, 5032>>, <<846, 5032>>, <<849, 5033>>, <<857, 5033>>,
     <<860, 5271>>, <<866, 4193>>, <<870, 4164>>, <<874, 24576>>, <<877, 5265>>, <<880, 28672>>,
     <<883, 5266>>, <<889, 5250>>, <<892, 5245>>, <<895, 5247>>, <<903, 5269>>, <<906, 5270>>,
     <<909, 5034>>, <<914, 5267>>, <<917, 4164>>, <<920, 5271>>, <<929, 4182>>, <<932, 4174>>}]

Build_0_96 ==
  [name |-> "0.96", family |-> "11", length |-> 1102, end |-> 832, jumps |-> FALSE,
   freqhi |-> 832, freqlo |-> 928, author |-> 32 .. 31,
   freq |-> <<248, 54>>, sums |-> <<8714390, 8508320>>,
   params |-> <<>>,
   smc |-> {1, 76, 78, 86, 91, 315, 495},
   zeropage |-> {132, 137, 139, 149, 207, 212, 217, 230, 234, 236, 245, 253, 259, 272, 385, 393,
     520, 549, 682, 688, 692, 699, 723, 780, 808},
   relocs |-> {<<8, 4097>>, <<12, 24576>>, <<15, 5162>>, <<18, 28672>>, <<21, 5163>>, <<27, 5147>>,
     <<30, 5146>>, <<35, 5166>>, <<38, 5167>>, <<41, 5121>>, <<46, 5141>>, <<54, 5164>>,
     <<57, 5168>>, <<66, 4182>>, <<69, 4174>>, <<72, 4097>>, <<80, 4172>>, <<98, 5166>>,
     <<105, 5167>>, <<110, 5166>>, <<113, 5164>>, <<120, 4462>>, <<123, 5164>>, <<126, 5147>>,
     <<129, 5162>>, <<134, 5163>>, <<151, 5165>>, <<156, 5147>>, <<159, 5121>>, <<164, 4413>>,
     <<167, 4571>>, <<170, 5121>>, <<175, 5121>>, <<183, 5164>>, <<188, 5121>>, <<191, 5122>>,
     <<198, 5166>>, <<201, 5165>>, <<204, 32768>>, <<209, 36864>>, <<214, 5164>>, <<242, 5126>>,
     <<249, 5122>>, <<255, 5123>>, <<266, 5164>>, <<269, 5122>>, <<280, 5120>>, <<289, 5121>>,
     <<298, 5141>>, <<306, 5183>>, <<309, 4411>>, <<312, 5123>>, <<315, 4738>>, <<320, 5121>>,
     <<325, 5143>>, <<328, 5144>>, <<331, 5145>>, <<334, 5126>>, <<337, 16386>>, <<340, 5142>>,
     <<349, 16390>>, <<354, 4172>>, <<361, 4187>>, <<364, 4721>>, <<367, 5121>>, <<372, 5126>>,
     <<375, 5143>>, <<382, 5143>>, <<387, 16391>>, <<390, 20480>>, <<395, 5141>>, <<401, 16384>>,
     <<407, 16385>>, <<413, 16391>>, <<420, 5142>>, <<425, 16387>>, <<430, 5142>>, <<441, 16389>>,
     <<450, 16387>>, <<455, 5142>>, <<466, 16388>>, <<473, 5143>>, <<476, 5146>>, <<481, 5122>>,
     <<486, 5190>>, <<489, 4591>>, <<492, 5123>>, <<495, 4776>>, <<498, 20480>>, <<503, 5141>>,
     <<509, 20736>>, <<515, 5120>>, <<522, 20481>>, <<529, 20737>>, <<534, 5126>>, <<537, 16391>>,
     <<546, 5146>>, <<553, 5123>>, <<560, 5166>>, <<568, 5144>>, <<575, 5120>>, <<585, 5120>>,
     <<599, 5120>>, <<605, 5144>>, <<608, 5024>>, <<611, 5125>>, <<617, 4928>>, <<620, 5124>>,
     <<626, 5168>>, <<632, 4193>>, <<638, 5145>>, <<643, 4182>>, <<646, 4721>>, <<649, 4174>>,
     <<652, 4721>>, <<658, 4721>>, <<663, 5167>>, <<666, 5174>>, <<669, 5181>>, <<676, 5167>>,
     <<694, 5145>>, <<705, 4806>>, <<711, 5145>>, <<719, 5120>>, <<727, 5124>>, <<730, 4928>>,
     <<739, 5125>>, <<742, 5024>>, <<749, 5124>>, <<752, 4928>>, <<761, 5125>>, <<764, 5024>>,
     <<771, 4703>>, <<774, 5125>>, <<782, 5125>>, <<785, 5124>>, <<793, 5124>>, <<796, 5168>>,
     <<802, 5125>>, <<810, 5125>>, <<813, 5124>>, <<821, 5124>>, <<824, 5168>>, <<830, 4193>>}]

Build_1_01 ==
  [name |-> "1.01", family |-> "11", length |-> 1102, end |-> 832, jumps |-> FALSE,
   freqhi |-> 832, freqlo |-> 928, author |-> 32 .. 31,
   freq |-> <<88, 169>>, sums |-> <<8714390, 8508320>>,
   params |-> <<>>,
   smc |-> {1, 76, 78, 86, 91, 315, 495},
   zeropage |-> {132, 137, 139, 149, 207, 212, 217, 230, 234, 236, 245, 253, 259, 272, 385, 393,
     520, 549, 682, 688, 692, 699, 723, 780, 808},
   relocs |-> {<<8, 4097>>, <<12, 24576>>, <<15, 5162>>, <<18, 28672>>, <<21, 5163>>, <<27, 5147>>,
     <<30, 5146>>, <<35, 5166>>, <<38, 5167>>, <<41, 5121>>, <<46, 5141>>, <<54, 5164>>,
     <<57, 5168>>, <<66, 4182>>, <<69, 4174>>, <<72, 4097>>, <<80, 4172>>, <<98, 5166>>,
     <<105, 5167>>, <<110, 5166>>, <<113, 5164>>, <<120, 4462>>, <<123, 5164>>, <<126, 5147>>,
     <<129, 5162>>, <<134, 5163>>, <<151, 5165>>, <<156, 5147>>, <<159, 5121>>, <<164, 4413>>,
     <<167, 4571>>, <<170, 5121>>, <<175, 5121>>, <<183, 5164>>, <<188, 5121>>, <<191, 5122>>,
     <<198, 5166>>, <<201, 5165>>, <<204, 32768>>, <<209, 36864>>, <<214, 5164>>, <<242, 5126>>,
     <<249, 5122>>, <<255, 5123>>, <<266, 5164>>, <<269, 5122>>, <<280, 5120>>, <<289, 5121>>,
     <<298, 5141>>, <<306, 5183>>, <<309, 4411>>, <<312, 5123>>, <<315, 4738>>, <<320, 5121>>,
     <<325, 5143>>, <<328, 5144>>, <<331, 5145>>, <<334, 5126>>, <<337, 16386>>, <<340, 5142>>,
     <<349, 16390>>, <<354, 4172>>, <<361, 4187>>, <<364, 4721>>, <<367, 5121>>, <<372, 5126>>,
     <<375, 5143>>, <<382, 5143>>, <<387, 16391>>, <<390, 20480>>, <<395, 5141>>, <<401, 16384>>,
     <<407, 16385>>, <<413, 16391>>, <<420, 5142>>, <<425, 16387>>, <<430, 5142>>, <<441, 16389>>,
     <<450, 16387>>, <<455, 5142>>, <<466, 16388>>, <<473, 5143>>, <<476, 5146>>, <<481, 5122>>,
     <<486, 5190>>, <<489, 4591>>, <<492, 5123>>, <<495, 4776>>, <<498, 20480>>, <<503, 5141>>,
     <<509, 20736>>, <<515, 5120>>, <<522, 20481>>, <<529, 20737>>, <<534, 5126>>, <<537, 16391>>,
     <<546, 5146>>, <<553, 5123>>, <<560, 5166>>, <<568, 5144>>, <<575, 5120>>, <<585, 5120>>,
     <<599, 5120>>, <<605, 5144>>, <<608, 5024>>, <<611, 5125>>, <<617, 4928>>, <<620, 5124>>,
     <<626, 5168>>, <<632, 4193>>, <<638, 5145>>, <<643, 4182>>, <<646, 4721>>, <<649, 4174>>,
     <<652, 4721>>, <<658, 4721>>, <<663, 5167>>, <<666, 5174>>, <<669, 5181>>, <<676, 5167>>,
     <<694, 5145>>, <<705, 4806>>, <<711, 5145>>, <<719, 5120>>, <<727, 5124>>, <<730, 4928>>,
     <<739, 5125>>, <<742, 5024>>, <<749, 5124>>, <<752, 4928>>, <<761, 5125>>, <<764, 5024>>,
     <<771, 4703>>, <<774, 5125>>, <<782, 5125>>, <<785, 5124>>, <<793, 5124>>, <<796, 5168>>,
     <<802, 5125>>, <<810, 5125>>, <<813, 5124>>, <<821, 5124>>, <<824, 5168>>, <<830, 4193>>}]

Build_1_1 ==
  [name |-> "1.1", family |-> "11", length |-> 1116, end |-> 846, jumps |-> TRUE,
   freqhi |-> 846, freqlo |-> 942, author |-> 32 .. 31,
   freq |-> <<88, 169>>, sums |-> <<8739436, 8457796>>,
   params |-> <<>>,
   smc |-> {17, 90, 92, 100, 105, 107, 329, 509},
   zeropage |-> {146, 151, 153, 163, 221, 226, 231, 244, 248, 250, 259, 267, 273, 286, 399, 407,
     534, 563, 696, 702, 706, 713, 737, 794, 822},
   relocs |-> {<<1, 4106>>, <<4, 4110>>, <<7, 4203>>, <<11, 4113>>, <<22, 4113>>, <<26, 24576>>,
     <<29, 5191>>, <<32, 28672>>, <<35, 5192>>, <<41, 5176>>, <<44, 5171>>, <<49, 5195>>,
     <<52, 5196>>, <<55, 5152>>, <<60, 5170>>, <<68, 5193>>, <<71, 4113>>, <<74, 5197>>,
     <<83, 4196>>, <<86, 4188>>, <<94, 4186>>, <<112, 5195>>, <<119, 5196>>, <<124, 5195>>,
     <<127, 5193>>, <<134, 4476>>, <<137, 5193>>, <<140, 5176>>, <<143, 5191>>, <<148, 5192>>,
     <<165, 5194>>, <<170, 5176>>, <<173, 5152>>, <<178, 4427>>, <<181, 4585>>, <<184, 5152>>,
     <<189, 5152>>, <<197, 5193>>, <<202, 5152>>, <<205, 5153>>, <<212, 5195>>, <<215, 5194>>,
     <<218, 32768>>, <<223, 36864>>, <<228, 5193>>, <<256, 5155>>, <<263, 5153>>, <<269, 5154>>,
     <<280, 5193>>, <<283, 5153>>, <<294, 5149>>, <<303, 5152>>, <<312, 5170>>, <<320, 5134>>,
     <<323, 4425>>, <<326, 5154>>, <<329, 4752>>, <<334, 5152>>, <<339, 5173>>, <<342, 5174>>,
     <<345, 5175>>, <<348, 5155>>, <<351, 16386>>, <<354, 5172>>, <<363, 16390>>, <<368, 4186>>,
     <<375, 4201>>, <<378, 4735>>, <<381, 5152>>, <<386, 5155>>, <<389, 5173>>, <<396, 5173>>,
     <<401, 16391>>, <<404, 20480>>, <<409, 5170>>, <<415, 16384>>, <<421, 16385>>, <<427, 16391>>,
     <<434, 5172>>, <<439, 16387>>, <<444, 5172>>, <<455, 16389>>, <<464, 16387>>, <<469, 5172>>,
     <<480, 16388>>, <<487, 5173>>, <<490, 5171>>, <<495, 5153>>, <<500, 5141>>, <<503, 4605>>,
     <<506, 5154>>, <<509, 4790>>, <<512, 20480>>, <<517, 5170>>, <<523, 20736>>, <<529, 5149>>,
     <<536, 20481>>, <<543, 20737>>, <<548, 5155>>, <<551, 16391>>, <<560, 5171>>, <<567, 5154>>,
     <<574, 5195>>, <<582, 5174>>, <<589, 5149>>, <<599, 5149>>, <<613, 5149>>, <<619, 5174>>,
     <<622, 5038>>, <<625, 5150>>, <<631, 4942>>, <<634, 5151>>, <<640, 5197>>, <<646, 4207>>,
     <<652, 5175>>, <<657, 4196>>, <<660, 4735>>, <<663, 4188>>, <<666, 4735>>, <<672, 4735>>,
     <<677, 5196>>, <<680, 5203>>, <<683, 5210>>, <<690, 5196>>, <<708, 5175>>, <<719, 4820>>,
     <<725, 5175>>, <<733, 5149>>, <<741, 5151>>, <<744, 4942>>, <<753, 5150>>, <<756, 5038>>,
     <<763, 5151>>, <<766, 4942>>, <<775, 5150>>, <<778, 5038>>, <<785, 4717>>, <<788, 5150>>,
     <<796, 5150>>, <<799, 5151>>, <<807, 5151>>, <<810, 5197>>, <<816, 5150>>, <<824, 5150>>,
     <<827, 5151>>, <<835, 5151>>, <<838, 5197>>, <<844, 4207>>}]

Build_1_15 ==
  [name |-> "1.15", family |-> "11", length |-> 1116, end |-> 846, jumps |-> TRUE,
   freqhi |-> 846, freqlo |-> 942, author |-> 32 .. 31,
   freq |-> <<88, 169>>, sums |-> <<8772985, 8474130>>,
   params |-> <<>>,
   smc |-> {17, 90, 92, 100, 105, 107, 329, 509},
   zeropage |-> {146, 151, 153, 160, 163, 221, 226, 231, 244, 248, 250, 259, 267, 273, 286, 399,
     407, 534, 563, 696, 702, 706, 713, 737, 794, 822},
   relocs |-> {<<1, 4106>>, <<4, 4110>>, <<7, 4203>>, <<11, 4113>>, <<22, 4113>>, <<26, 24576>>,
     <<29, 5191>>, <<32, 28672>>, <<35, 5192>>, <<41, 5176>>, <<44, 5171>>, <<49, 5195>>,
     <<52, 5196>>, <<55, 5152>>, <<60, 5170>>, <<68, 5193>>, <<71, 4113>>, <<74, 5197>>,
     <<83, 4196>>, <<86, 4188>>, <<94, 4186>>, <<112, 5195>>, <<119, 5196>>, <<124, 5195>>,
     <<127, 5193>>, <<134, 4476>>, <<137, 5193>>, <<140, 5176>>, <<143, 5191>>, <<148, 5192>>,
     <<165, 5194>>, <<170, 5176>>, <<173, 5152>>, <<178, 4427>>, <<181, 4585>>, <<184, 5152>>,
     <<189, 5152>>, <<197, 5193>>, <<202, 5152>>, <<205, 5153>>, <<212, 5195>>, <<215, 5194>>,
     <<218, 32768>>, <<223, 36864>>, <<228, 5193>>, <<256, 5155>>, <<263, 5153>>, <<269, 5154>>,
     <<280, 5193>>, <<283, 5153>>, <<294, 5149>>, <<303, 5152>>, <<312, 5170>>, <<320, 5134>>,
     <<323, 4425>>, <<326, 5154>>, <<329, 4752>>, <<334, 5152>>, <<339, 5173>>, <<342, 5174>>,
     <<345, 5175>>, <<348, 5155>>, <<351, 16386>>, <<354, 5172>>, <<363, 16390>>, <<368, 4186>>,
     <<375, 4201>>, <<378, 4735>>, <<381, 5152>>, <<386, 5155>>, <<389, 5173>>, <<396, 5173>>,
     <<401, 16391>>, <<404, 20480>>, <<409, 5170>>, <<415, 16384>>, <<421, 16385>>, <<427, 16391>>,
     <<434, 5172>>, <<439, 16387>>, <<444, 5172>>, <<455, 16389>>, <<464, 16387>>, <<469, 5172>>,
     <<480, 16388>>, <<487, 5173>>, <<490, 5171>>, <<495, 5153>>, <<500, 5141>>, <<503, 4605>>,
     <<506, 5154>>, <<509, 4790>>, <<512, 20480>>, <<517, 5170>>, <<523, 20736>>, <<529, 5149>>,
     <<536, 20481>>, <<543, 20737>>, <<548, 5155>>, <<551, 16391>>, <<560, 5171>>, <<567, 5154>>,
     <<574, 5195>>, <<582, 5174>>, <<589, 5149>>, <<599, 5149>>, <<613, 5149>>, <<619, 5174>>,
     <<622, 5038>>, <<625, 5150>>, <<631, 4942>>, <<634, 5151>>, <<640, 5197>>, <<646, 4207>>,
     <<652, 5175>>, <<657, 4196>>, <<660, 4735>>, <<663, 4188>>, <<666, 4735>>, <<672, 4735>>,
     <<677, 5196>>, <<680, 5203>>, <<683, 5210>>, <<690, 5196>>, <<708, 5175>>, <<719, 4820>>,
     <<725, 5175>>, <<733, 5149>>, <<741, 5151>>, <<744, 4942>>, <<753, 5150>>, <<756, 5038>>,
     <<763, 5151>>, <<766, 4942>>, <<775, 5150>>, <<778, 5038>>, <<785, 4717>>, <<788, 5150>>,
     <<796, 5150>>, <<799, 5151>>, <<807, 5151>>, <<810, 5197>>, <<816, 5150>>, <<824, 5150>>,
     <<827, 5151>>, <<835, 5151>>, <<838, 5197>>, <<844, 4207>>}]

Build_1_16 ==
  [name |-> "1.16", family |-> "11", length |-> 1118, end |-> 848, jumps |-> TRUE,
   freqhi |-> 848, freqlo |-> 944, author |-> 32 .. 31,
   freq |-> <<88, 169>>, sums |-> <<8621348, 8593479>>,
   params |-> <<>>,
   smc |-> {17, 90, 92, 100, 105, 107, 329, 511},
   zeropage |-> {146, 151, 153, 160, 163, 221, 226, 231, 244, 248, 250, 259, 267, 273, 286, 401,
     409, 536, 565, 698, 704, 708, 715, 739, 796, 824},
   relocs |-> {<<1, 4106>>, <<4, 4110>>, <<7, 4203>>, <<11, 4113>>, <<22, 4113>>, <<26, 24576>>,
     <<29, 5193>>, <<32, 28672>>, <<35, 5194>>, <<41, 5178>>, <<44, 5173>>, <<49, 5197>>,
     <<52, 5198>>, <<55, 5154>>, <<60, 5172>>, <<68, 5195>>, <<71, 4113>>, <<74, 5199>>,
     <<83, 4196>>, <<86, 4188>>, <<94, 4186>>, <<112, 5197>>, <<119, 5198>>, <<124, 5197>>,
     <<127, 5195>>, <<134, 4478>>, <<137, 5195>>, <<140, 5178>>, <<143, 5193>>, <<148, 5194>>,
     <<165, 5196>>, <<170, 5178>>, <<173, 5154>>, <<178, 4427>>, <<181, 4587>>, <<184, 5154>>,
     <<189, 5154>>, <<197, 5195>>, <<202, 5154>>, <<205, 5155>>, <<212, 5197>>, <<215, 5196>>,
     <<218, 32768>>, <<223, 36864>>, <<228, 5195>>, <<256, 5157>>, <<263, 5155>>, <<269, 5156>>,
     <<280, 5195>>, <<283, 5155>>, <<294, 5151>>, <<303, 5154>>, <<312, 5172>>, <<320, 5136>>,
     <<323, 4425>>, <<326, 5156>>, <<329, 4754>>, <<334, 5154>>, <<339, 5175>>, <<342, 5176>>,
     <<345, 5177>>, <<348, 5157>>, <<351, 16386>>, <<356, 5174>>, <<365, 16390>>, <<370, 4186>>,
     <<377, 4201>>, <<380, 4737>>, <<383, 5154>>, <<388, 5157>>, <<391, 5175>>, <<398, 5175>>,
     <<403, 16391>>, <<406, 20480>>, <<411, 5172>>, <<417, 16384>>, <<423, 16385>>, <<429, 16391>>,
     <<436, 5174>>, <<441, 16387>>, <<446, 5174>>, <<457, 16389>>, <<466, 16387>>, <<471, 5174>>,
     <<482, 16388>>, <<489, 5175>>, <<492, 5173>>, <<497, 5155>>, <<502, 5143>>, <<505, 4607>>,
     <<508, 5156>>, <<511, 4792>>, <<514, 20480>>, <<519, 5172>>, <<525, 20736>>, <<531, 5151>>,
     <<538, 20481>>, <<545, 20737>>, <<550, 5157>>, <<553, 16391>>, <<562, 5173>>, <<569, 5156>>,
     <<576, 5197>>, <<584, 5176>>, <<591, 5151>>, <<601, 5151>>, <<615, 5151>>, <<621, 5176>>,
     <<624, 5040>>, <<627, 5152>>, <<633, 4944>>, <<636, 5153>>, <<642, 5199>>, <<648, 4207>>,
     <<654, 5177>>, <<659, 4196>>, <<662, 4737>>, <<665, 4188>>, <<668, 4737>>, <<674, 4737>>,
     <<679, 5198>>, <<682, 5205>>, <<685, 5212>>, <<692, 5198>>, <<710, 5177>>, <<721, 4822>>,
     <<727, 5177>>, <<735, 5151>>, <<743, 5153>>, <<746, 4944>>, <<755, 5152>>, <<758, 5040>>,
     <<765, 5153>>, <<768, 4944>>, <<777, 5152>>, <<780, 5040>>, <<787, 4719>>, <<790, 5152>>,
     <<798, 5152>>, <<801, 5153>>, <<809, 5153>>, <<812, 5199>>, <<818, 5152>>, <<826, 5152>>,
     <<829, 5153>>, <<837, 5153>>, <<840, 5199>>, <<846, 4207>>}]

Build_1_21 ==
  [name |-> "1.21", family |-> "11", length |-> 1118, end |-> 848, jumps |-> TRUE,
   freqhi |-> 848, freqlo |-> 944, author |-> 32 .. 31,
   freq |-> <<88, 169>>, sums |-> <<8603874, 8579892>>,
   params |-> <<>>,
   smc |-> {17, 90, 92, 100, 105, 107, 329, 511},
   zeropage |-> {146, 151, 153, 160, 163, 221, 226, 231, 244, 248, 250, 259, 267, 273, 286, 401,
     409, 536, 565, 698, 704, 708, 715, 739, 796, 824},
   relocs |-> {<<1, 4106>>, <<4, 4110>>, <<7, 4203>>, <<11, 4113>>, <<22, 4113>>, <<26, 24576>>,
     <<29, 5193>>, <<32, 28672>>, <<35, 5194>>, <<41, 5178>>, <<44, 5173>>, <<47, 5175>>,
     <<52, 5197>>, <<55, 5198>>, <<58, 5154>>, <<68, 5195>>, <<71, 4113>>, <<74, 5199>>,
     <<83, 4196>>, <<86, 4188>>, <<94, 4186>>, <<112, 5197>>, <<119, 5198>>, <<124, 5197>>,
     <<127, 5195>>, <<134, 4478>>, <<137, 5195>>, <<140, 5178>>, <<143, 5193>>, <<148, 5194>>,
     <<165, 5196>>, <<170, 5178>>, <<173, 5154>>, <<178, 4427>>, <<181, 4587>>, <<184, 5154>>,
     <<189, 5154>>, <<197, 5195>>, <<202, 5154>>, <<205, 5155>>, <<212, 5197>>, <<215, 5196>>,
     <<218, 32768>>, <<223, 36864>>, <<228, 5195>>, <<256, 5157>>, <<263, 5155>>, <<269, 5156>>,
     <<280, 5195>>, <<283, 5155>>, <<294, 5151>>, <<303, 5154>>, <<312, 5172>>, <<320, 5136>>,
     <<323, 4425>>, <<326, 5156>>, <<329, 4754>>, <<334, 5154>>, <<339, 5175>>, <<342, 5176>>,
     <<345, 5177>>, <<348, 5157>>, <<351, 16386>>, <<356, 5174>>, <<365, 16390>>, <<370, 4186>>,
     <<377, 4201>>, <<380, 4737>>, <<383, 5154>>, <<388, 5157>>, <<391, 5175>>, <<398, 5175>>,
     <<403, 16391>>, <<406, 20480>>, <<411, 5172>>, <<417, 16384>>, <<423, 16385>>, <<429, 16391>>,
     <<436, 5174>>, <<441, 16387>>, <<446, 5174>>, <<457, 16389>>, <<466, 16387>>, <<471, 5174>>,
     <<482, 16388>>, <<489, 5175>>, <<492, 5173>>, <<497, 5155>>, <<502, 5143>>, <<505, 4607>>,
     <<508, 5156>>, <<511, 4792>>, <<514, 20480>>, <<519, 5172>>, <<525, 20736>>, <<531, 5151>>,
     <<538, 20481>>, <<545, 20737>>, <<550, 5157>>, <<553, 16391>>, <<562, 5173>>, <<569, 5156>>,
     <<576, 5197>>, <<584, 5176>>, <<591, 5151>>, <<601, 5151>>, <<615, 5151>>, <<621, 5176>>,
     <<624, 5040>>, <<627, 5152>>, <<633, 4944>>, <<636, 5153>>, <<642, 5199>>, <<648, 4207>>,
     <<654, 5177>>, <<659, 4196>>, <<662, 4737>>, <<665, 4188>>, <<668, 4737>>, <<674, 4737>>,
     <<679, 5198>>, <<682, 5205>>, <<685, 5212>>, <<692, 5198>>, <<710, 5177>>, <<721, 4822>>,
     <<727, 5177>>, <<735, 5151>>, <<743, 5153>>, <<746, 4944>>, <<755, 5152>>, <<758, 5040>>,
     <<765, 5153>>, <<768, 4944>>, <<777, 5152>>, <<780, 5040>>, <<787, 4719>>, <<790, 5152>>,
     <<798, 5152>>, <<801, 5153>>, <<809, 5153>>, <<812, 5199>>, <<818, 5152>>, <<826, 5152>>,
     <<829, 5153>>, <<837, 5153>>, <<840, 5199>>, <<846, 4207>>}]

Build_1_22 ==
  [name |-> "1.22", family |-> "11", length |-> 1117, end |-> 847, jumps |-> TRUE,
   freqhi |-> 847, freqlo |-> 943, author |-> 32 .. 31,
   freq |-> <<88, 169>>, sums |-> <<8861028, 8396154>>,
   params |-> <<>>,
   smc |-> {17, 89, 91, 99, 104, 106, 328, 510},
   zeropage |-> {145, 150, 152, 159, 162, 220, 225, 230, 243, 247, 249, 258, 266, 272, 285, 400,
     408, 535, 564, 697, 703, 707, 714, 738, 795, 823},
   relocs |-> {<<1, 4106>>, <<4, 4110>>, <<7, 4202>>, <<11, 4113>>, <<22, 4113>>, <<26, 24576>>,
     <<29, 5192>>, <<32, 28672>>, <<35, 5193>>, <<41, 5177>>, <<44, 5172>>, <<47, 5174>>,
     <<55, 5196>>, <<58, 5197>>, <<61, 5153>>, <<66, 5194>>, <<69, 4113>>, <<72, 5198>>,
     <<81, 4195>>, <<84, 4187>>, <<93, 4185>>, <<111, 5196>>, <<118, 5197>>, <<123, 5196>>,
     <<126, 5194>>, <<133, 4477>>, <<136, 5194>>, <<139, 5177>>, <<142, 5192>>, <<147, 5193>>,
     <<164, 5195>>, <<169, 5177>>, <<172, 5153>>, <<177, 4426>>, <<180, 4586>>, <<183, 5153>>,
     <<188, 5153>>, <<196, 5194>>, <<201, 5153>>, <<204, 5154>>, <<211, 5196>>, <<214, 5195>>,
     <<217, 32768>>, <<222, 36864>>, <<227, 5194>>, <<255, 5156>>, <<262, 5154>>, <<268, 5155>>,
     <<279, 5194>>, <<282, 5154>>, <<293, 5150>>, <<302, 5153>>, <<311, 5171>>, <<319, 5135>>,
     <<322, 4424>>, <<325, 5155>>, <<328, 4753>>, <<333, 5153>>, <<338, 5174>>, <<341, 5175>>,
     <<344, 5176>>, <<347, 5156>>, <<350, 16386>>, <<355, 5173>>, <<364, 16390>>, <<369, 4185>>,
     <<376, 4200>>, <<379, 4736>>, <<382, 5153>>, <<387, 5156>>, <<390, 5174>>, <<397, 5174>>,
     <<402, 16391>>, <<405, 20480>>, <<410, 5171>>, <<416, 16384>>, <<422, 16385>>, <<428, 16391>>,
     <<435, 5173>>, <<440, 16387>>, <<445, 5173>>, <<456, 16389>>, <<465, 16387>>, <<470, 5173>>,
     <<481, 16388>>, <<488, 5174>>, <<491, 5172>>, <<496, 5154>>, <<501, 5142>>, <<504, 4606>>,
     <<507, 5155>>, <<510, 4791>>, <<513, 20480>>, <<518, 5171>>, <<524, 20736>>, <<530, 5150>>,
     <<537, 20481>>, <<544, 20737>>, <<549, 5156>>, <<552, 16391>>, <<561, 5172>>, <<568, 5155>>,
     <<575, 5196>>, <<583, 5175>>, <<590, 5150>>, <<600, 5150>>, <<614, 5150>>, <<620, 5175>>,
     <<623, 5039>>, <<626, 5151>>, <<632, 4943>>, <<635, 5152>>, <<641, 5198>>, <<647, 4206>>,
     <<653, 5176>>, <<658, 4195>>, <<661, 4736>>, <<664, 4187>>, <<667, 4736>>, <<673, 4736>>,
     <<678, 5197>>, <<681, 5204>>, <<684, 5211>>, <<691, 5197>>, <<709, 5176>>, <<720, 4821>>,
     <<726, 5176>>, <<734, 5150>>, <<742, 5152>>, <<745, 4943>>, <<754, 5151>>, <<757, 5039>>,
     <<764, 5152>>, <<767, 4943>>, <<776, 5151>>, <<779, 5039>>, <<786, 4718>>, <<789, 5151>>,
     <<797, 5151>>, <<800, 5152>>, <<808, 5152>>, <<811, 5198>>, <<817, 5151>>, <<825, 5151>>,
     <<828, 5152>>, <<836, 5152>>, <<839, 5198>>, <<845, 4206>>}]

Build_1_4b ==
  [name |-> "1.4b", family |-> "1.4", length |-> 1267, end |-> 1012, jumps |-> TRUE,
   freqhi |-> 1075, freqlo |-> 1171, author |-> 32 .. 63,
   freq |-> <<88, 169>>, sums |-> <<9639676, 8911737>>,
   params |-> <<>>,
   smc |-> {11, 67, 360, 560, 564, 574, 576, 738},
   zeropage |-> {156, 161, 166, 181, 289, 298, 317, 349, 382, 411, 613, 618, 623, 636, 640, 642,
     651, 659, 665, 678, 744, 752, 761, 769, 840, 843, 845, 920, 944, 948, 955},
   relocs |-> {<<1, 4102>>, <<4, 4160>>, <<7, 4107>>, <<13, 4163>>, <<71, 5151>>, <<74, 4163>>,
     <<79, 5129>>, <<82, 5156>>, <<85, 5130>>, <<88, 5150>>, <<91, 5134>>, <<94, 5135>>,
     <<99, 5154>>, <<102, 5155>>, <<107, 5111>>, <<110, 5152>>, <<119, 4885>>, <<122, 4576>>,
     <<125, 5154>>, <<130, 4688>>, <<135, 5155>>, <<140, 5154>>, <<143, 5152>>, <<150, 5151>>,
     <<153, 17152>>, <<158, 17408>>, <<163, 5150>>, <<188, 5135>>, <<191, 4261>>, <<196, 5156>>,
     <<199, 4261>>, <<202, 5153>>, <<205, 5135>>, <<210, 5135>>, <<215, 5150>>, <<218, 5152>>,
     <<221, 5111>>, <<226, 4951>>, <<229, 5111>>, <<234, 5111>>, <<243, 5133>>, <<246, 5114>>,
     <<249, 16386>>, <<254, 5132>>, <<259, 5131>>, <<262, 16391>>, <<265, 5130>>, <<268, 16390>>,
     <<273, 4885>>, <<276, 4576>>, <<279, 5114>>, <<282, 16387>>, <<291, 5132>>, <<301, 5131>>,
     <<306, 5131>>, <<309, 16389>>, <<312, 4426>>, <<320, 5131>>, <<325, 5131>>, <<328, 16388>>,
     <<334, 5132>>, <<337, 5130>>, <<342, 5112>>, <<351, 4119>>, <<354, 4456>>, <<357, 5113>>,
     <<360, 5019>>, <<363, 16640>>, <<368, 5129>>, <<371, 16896>>, <<377, 5108>>, <<384, 16641>>,
     <<391, 16897>>, <<396, 5114>>, <<399, 16391>>, <<408, 5130>>, <<415, 5113>>, <<421, 5133>>,
     <<433, 5133>>, <<444, 5113>>, <<455, 5113>>, <<465, 5108>>, <<469, 5267>>, <<472, 5109>>,
     <<475, 5171>>, <<478, 5110>>, <<481, 5109>>, <<487, 5110>>, <<493, 5129>>, <<499, 5111>>,
     <<504, 5114>>, <<507, 16384>>, <<513, 16385>>, <<516, 5112>>, <<523, 5113>>, <<529, 5111>>,
     <<532, 5132>>, <<538, 5131>>, <<552, 4162>>, <<557, 4163>>, <<568, 4885>>, <<571, 4660>>,
     <<578, 4670>>, <<585, 5152>>, <<588, 5134>>, <<593, 5154>>, <<596, 5134>>, <<601, 5134>>,
     <<604, 4821>>, <<607, 5153>>, <<610, 17664>>, <<615, 17920>>, <<620, 5152>>, <<648, 5114>>,
     <<655, 5112>>, <<661, 5113>>, <<672, 5152>>, <<675, 5112>>, <<686, 5156>>, <<689, 5108>>,
     <<696, 5114>>, <<699, 16387>>, <<705, 5111>>, <<718, 5129>>, <<723, 5129>>, <<726, 5112>>,
     <<729, 4112>>, <<732, 4834>>, <<735, 5113>>, <<738, 4974>>, <<741, 5109>>, <<746, 5109>>,
     <<749, 5110>>, <<754, 5110>>, <<758, 5109>>, <<763, 5109>>, <<766, 5110>>, <<771, 5110>>,
     <<775, 5110>>, <<778, 5171>>, <<783, 5109>>, <<786, 5267>>, <<791, 18176>>, <<799, 18177>>,
     <<805, 18178>>, <<810, 4670>>, <<820, 18178>>, <<823, 4672>>, <<826, 18177>>, <<829, 4660>>,
     <<832, 18179>>, <<835, 4656>>, <<848, 4576>>, <<851, 5111>>, <<856, 5130>>, <<861, 4458>>,
     <<864, 5112>>, <<869, 4510>>, <<874, 5133>>, <<879, 4885>>, <<882, 4946>>, <<885, 5111>>,
     <<893, 4951>>, <<898, 5155>>, <<901, 5162>>, <<904, 5169>>, <<915, 5155>>, <<924, 4934>>,
     <<928, 4836>>, <<931, 4576>>, <<934, 4934>>, <<938, 4853>>, <<941, 4576>>, <<950, 5133>>,
     <<966, 5133>>, <<974, 5108>>, <<978, 4934>>, <<984, 4870>>, <<991, 4836>>, <<994, 4870>>,
     <<999, 4576>>, <<1002, 4853>>, <<1005, 4870>>, <<1010, 4564>>}]

Build_1_4b_hr1 ==
  [name |-> "1.4b-hr1", family |-> "1.4", length |-> 1263, end |-> 1008, jumps |-> TRUE,
   freqhi |-> 1071, freqlo |-> 1167, author |-> 32 .. 63,
   freq |-> <<88, 169>>, sums |-> <<9236595, 9349695>>,
   params |-> <<>>,
   smc |-> {11, 67, 356, 556, 560, 570, 572, 734},
   zeropage |-> {156, 161, 166, 181, 285, 294, 313, 345, 378, 407, 609, 614, 619, 632, 636, 638,
     647, 655, 661, 674, 740, 748, 757, 765, 836, 839, 841, 916, 940, 944, 951},
   relocs |-> {<<1, 4102>>, <<4, 4160>>, <<7, 4107>>, <<13, 4163>>, <<71, 5147>>, <<74, 4163>>,
     <<79, 5125>>, <<82, 5152>>, <<85, 5126>>, <<88, 5146>>, <<91, 5130>>, <<94, 5131>>,
     <<99, 5150>>, <<102, 5151>>, <<107, 5107>>, <<110, 5148>>, <<119, 4881>>, <<122, 4572>>,
     <<125, 5150>>, <<130, 4684>>, <<135, 5151>>, <<140, 5150>>, <<143, 5148>>, <<150, 5147>>,
     <<153, 17152>>, <<158, 17408>>, <<163, 5146>>, <<188, 5131>>, <<191, 4261>>, <<196, 5152>>,
     <<199, 4261>>, <<202, 5149>>, <<205, 5131>>, <<210, 5131>>, <<215, 5146>>, <<218, 5148>>,
     <<221, 5107>>, <<226, 4947>>, <<229, 5107>>, <<236, 5129>>, <<239, 5107>>, <<242, 5110>>,
     <<245, 16386>>, <<250, 5128>>, <<255, 5127>>, <<258, 16391>>, <<261, 5126>>, <<264, 16390>>,
     <<269, 4881>>, <<272, 4428>>, <<275, 5110>>, <<278, 16387>>, <<287, 5128>>, <<297, 5127>>,
     <<302, 5127>>, <<305, 16389>>, <<308, 4422>>, <<316, 5127>>, <<321, 5127>>, <<324, 16388>>,
     <<330, 5128>>, <<333, 5126>>, <<338, 5108>>, <<347, 4119>>, <<350, 4452>>, <<353, 5109>>,
     <<356, 5015>>, <<359, 16640>>, <<364, 5125>>, <<367, 16896>>, <<373, 5104>>, <<380, 16641>>,
     <<387, 16897>>, <<392, 5110>>, <<395, 16391>>, <<404, 5126>>, <<411, 5109>>, <<417, 5129>>,
     <<429, 5129>>, <<440, 5109>>, <<451, 5109>>, <<461, 5104>>, <<465, 5263>>, <<468, 5105>>,
     <<471, 5167>>, <<474, 5106>>, <<477, 5105>>, <<483, 5106>>, <<489, 5125>>, <<495, 5107>>,
     <<500, 5110>>, <<503, 16384>>, <<509, 16385>>, <<512, 5108>>, <<519, 5109>>, <<525, 5107>>,
     <<528, 5128>>, <<534, 5127>>, <<548, 4162>>, <<553, 4163>>, <<564, 4881>>, <<567, 4656>>,
     <<574, 4666>>, <<581, 5148>>, <<584, 5130>>, <<589, 5150>>, <<592, 5130>>, <<597, 5130>>,
     <<600, 4817>>, <<603, 5149>>, <<606, 17664>>, <<611, 17920>>, <<616, 5148>>, <<644, 5110>>,
     <<651, 5108>>, <<657, 5109>>, <<668, 5148>>, <<671, 5108>>, <<682, 5152>>, <<685, 5104>>,
     <<692, 5110>>, <<695, 16387>>, <<701, 5107>>, <<714, 5125>>, <<719, 5125>>, <<722, 5108>>,
     <<725, 4112>>, <<728, 4830>>, <<731, 5109>>, <<734, 4970>>, <<737, 5105>>, <<742, 5105>>,
     <<745, 5106>>, <<750, 5106>>, <<754, 5105>>, <<759, 5105>>, <<762, 5106>>, <<767, 5106>>,
     <<771, 5106>>, <<774, 5167>>, <<779, 5105>>, <<782, 5263>>, <<787, 18176>>, <<795, 18177>>,
     <<801, 18178>>, <<806, 4666>>, <<816, 18178>>, <<819, 4668>>, <<822, 18177>>, <<825, 4656>>,
     <<828, 18179>>, <<831, 4652>>, <<844, 4572>>, <<847, 5107>>, <<852, 5126>>, <<857, 4454>>,
     <<860, 5108>>, <<865, 4506>>, <<870, 5129>>, <<875, 4881>>, <<878, 4942>>, <<881, 5107>>,
     <<889, 4947>>, <<894, 5151>>, <<897, 5158>>, <<900, 5165>>, <<911, 5151>>, <<920, 4930>>,
     <<924, 4832>>, <<927, 4572>>, <<930, 4930>>, <<934, 4849>>, <<937, 4572>>, <<946, 5129>>,
     <<962, 5129>>, <<970, 5104>>, <<974, 4930>>, <<980, 4866>>, <<987, 4832>>, <<990, 4866>>,
     <<995, 4572>>, <<998, 4849>>, <<1001, 4866>>, <<1006, 4560>>}]

Build_1_4b_multi ==
  [name |-> "1.4b-multi", family |-> "1.4", length |-> 1268, end |-> 1013, jumps |-> TRUE,
   freqhi |-> 1076, freqlo |-> 1172, author |-> 32 .. 63,
   freq |-> <<88, 169>>, sums |-> <<9532445, 8717333>>,
   params |-> <<>>,
   smc |-> {11, 31, 67, 360, 560, 564, 574, 576, 739},
   zeropage |-> {156, 161, 166, 181, 289, 298, 317, 349, 382, 411, 613, 618, 623, 636, 640, 642,
     651, 659, 665, 678, 745, 753, 762, 770, 841, 844, 846, 921, 945, 949, 956},
   relocs |-> {<<1, 4102>>, <<4, 4160>>, <<7, 4107>>, <<13, 4163>>, <<71, 5152>>, <<74, 4163>>,
     <<79, 5130>>, <<82, 5157>>, <<85, 5131>>, <<88, 5151>>, <<91, 5135>>, <<94, 5136>>,
     <<99, 5155>>, <<102, 5156>>, <<107, 5112>>, <<110, 5153>>, <<119, 4886>>, <<122, 4576>>,
     <<125, 5155>>, <<130, 4688>>, <<135, 5156>>, <<140, 5155>>, <<143, 5153>>, <<150, 5152>>,
     <<153, 17152>>, <<158, 17408>>, <<163, 5151>>, <<188, 5136>>, <<191, 4261>>, <<196, 5157>>,
     <<199, 4261>>, <<202, 5154>>, <<205, 5136>>, <<210, 5136>>, <<215, 5151>>, <<218, 5153>>,
     <<221, 5112>>, <<226, 4952>>, <<229, 5112>>, <<234, 5112>>, <<243, 5134>>, <<246, 5115>>,
     <<249, 16386>>, <<254, 5133>>, <<259, 5132>>, <<262, 16391>>, <<265, 5131>>, <<268, 16390>>,
     <<273, 4886>>, <<276, 4576>>, <<279, 5115>>, <<282, 16387>>, <<291, 5133>>, <<301, 5132>>,
     <<306, 5132>>, <<309, 16389>>, <<312, 4426>>, <<320, 5132>>, <<325, 5132>>, <<328, 16388>>,
     <<334, 5133>>, <<337, 5131>>, <<342, 5113>>, <<351, 4119>>, <<354, 4456>>, <<357, 5114>>,
     <<360, 5020>>, <<363, 16640>>, <<368, 5130>>, <<371, 16896>>, <<377, 5109>>, <<384, 16641>>,
     <<391, 16897>>, <<396, 5115>>, <<399, 16391>>, <<408, 5131>>, <<415, 5114>>, <<421, 5134>>,
     <<433, 5134>>, <<444, 5114>>, <<455, 5114>>, <<465, 5109>>, <<469, 5268>>, <<472, 5110>>,
     <<475, 5172>>, <<478, 5111>>, <<481, 5110>>, <<487, 5111>>, <<493, 5130>>, <<499, 5112>>,
     <<504, 5115>>, <<507, 16384>>, <<513, 16385>>, <<516, 5113>>, <<523, 5114>>, <<529, 5112>>,
     <<532, 5133>>, <<538, 5132>>, <<552, 4162>>, <<557, 4163>>, <<568, 4886>>, <<571, 4660>>,
     <<578, 4670>>, <<585, 5153>>, <<588, 5135>>, <<593, 5155>>, <<596, 5135>>, <<601, 5135>>,
     <<604, 4822>>, <<607, 5154>>, <<610, 17664>>, <<615, 17920>>, <<620, 5153>>, <<648, 5115>>,
     <<655, 5113>>, <<661, 5114>>, <<672, 5153>>, <<675, 5113>>, <<686, 5157>>, <<689, 5109>>,
     <<696, 5115>>, <<699, 16387>>, <<703, 4127>>, <<706, 5112>>, <<719, 5130>>, <<724, 5130>>,
     <<727, 5113>>, <<730, 4112>>, <<733, 4835>>, <<736, 5114>>, <<739, 4975>>, <<742, 5110>>,
     <<747, 5110>>, <<750, 5111>>, <<755, 5111>>, <<759, 5110>>, <<764, 5110>>, <<767, 5111>>,
     <<772, 5111>>, <<776, 5111>>, <<779, 5172>>, <<784, 5110>>, <<787, 5268>>, <<792, 18176>>,
     <<800, 18177>>, <<806, 18178>>, <<811, 4670>>, <<821, 18178>>, <<824, 4672>>, <<827, 18177>>,
     <<830, 4660>>, <<833, 18179>>, <<836, 4656>>, <<849, 4576>>, <<852, 5112>>, <<857, 5131>>,
     <<862, 4458>>, <<865, 5113>>, <<870, 4510>>, <<875, 5134>>, <<880, 4886>>, <<883, 4947>>,
     <<886, 5112>>, <<894, 4952>>, <<899, 5156>>, <<902, 5163>>, <<905, 5170>>, <<916, 5156>>,
     <<925, 4935>>, <<929, 4837>>, <<932, 4576>>, <<935, 4935>>, <<939, 4854>>, <<942, 4576>>,
     <<951, 5134>>, <<967, 5134>>, <<975, 5109>>, <<979, 4935>>, <<985, 4871>>, <<992, 4837>>,
     <<995, 4871>>, <<1000, 4576>>, <<1003, 4854>>, <<1006, 4871>>, <<1011, 4564>>}]

\* All of them, in the order they are tried.
PLAYERS ==
  <<Build_1_53, Build_1_52, Build_1_51, Build_1_50b, Build_1_50, Build_11_1, Build_11_2, Build_11_3,
     Build_11_4, Build_11_5, Build_0_96, Build_1_01, Build_1_1, Build_1_15, Build_1_16, Build_1_21,
     Build_1_22, Build_1_4b, Build_1_4b_hr1, Build_1_4b_multi>>

-----------------------------------------------------------------------------
(* A playroutine of PackedImage1 for each.                                 *)

\* The table a page of the assembled operands stands for (_TAGS_11, _TAGS_15).
TAGS_11 == (64 :> "instad") @@ (80 :> "wavetbl") @@ (81 :> "notetbl") @@ (96 :> "songtbllo")
           @@ (112 :> "songtblhi") @@ (128 :> "patttbllo") @@ (144 :> "patttblhi")
TAGS_15 == (64 :> "instad") @@ (65 :> "wavetbl") @@ (66 :> "notetbl") @@ (67 :> "songtbllo")
           @@ (68 :> "songtblhi") @@ (69 :> "patttbllo") @@ (70 :> "patttblhi") @@ (71 :> "filttbl")

\* The releases whose orderlists end without a restart, and the one whose zero transpose
\* is one less (variant.py).
ENDSONG == {"0.96", "1.01", "1.1"}
LOOP_AFTER == {"1.50"}

\* A kept byte is told apart by the build's sums; the rest is as the facts have it.
AssembledByte(build, words, k) ==
  CASE k = build.freqhi -> build.freq[1]
    [] k = build.freqlo -> build.freq[2]
    [] k \in DOMAIN words -> words[k] % 256
    [] k - 1 \in DOMAIN words -> words[k - 1] \div 256
    [] OTHER -> (build.sums[1] + k) % 251

\* Reference: its bytes from the end of the code on are its variables and its notes.
Reference(build) ==
  LET tags == IF build.family = "11" THEN TAGS_11 ELSE TAGS_15
      words == [p \in {r[1] : r \in build.relocs} |-> (CHOOSE r \in build.relocs : r[1] = p)[2]]
      tagOf(w) == IF w \div 256 \in DOMAIN tags THEN tags[w \div 256] ELSE "code"
  IN [name |-> build.name, family |-> build.family, bias |-> IF build.jumps THEN 0 ELSE 3,
      code |-> [k \in 1 .. build.length |-> AssembledByte(build, words, k - 1)],
      relocs |-> {[pos |-> r[1], tag |-> tagOf(r[2]), smc |-> r[1] \in build.smc,
                   low |-> IF tagOf(r[2]) = "code" THEN r[2] ELSE r[2] % 256] : r \in build.relocs},
      params |-> build.params,
      free |-> build.smc \cup build.zeropage \cup build.author,
      freq |-> {build.freqhi, build.freqlo}, end |-> build.end,
      endsong |-> build.name \in ENDSONG,
      zero |-> IF build.name \in LOOP_AFTER THEN 239 ELSE 240]

References == [i \in DOMAIN PLAYERS |-> Reference(PLAYERS[i])]

=============================================================================
