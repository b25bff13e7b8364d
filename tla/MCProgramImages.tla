---------------------------- MODULE MCProgramImages ----------------------------
(* Lists of up to three areas around the bounds, programs of any place and   *)
(* size, and two banks with the files that matter in each of their windows.  *)
EXTENDS ProgramImages

Name(w, l) == [word |-> w, letters |-> l]
P == Name("P", "capitals")
Q == Name("Q", "capitals")
R == Name("R", "capitals")

Areas(names, starts, sizes) == [name : names, start : starts, size : sizes]

AreaLists ==
  {<<>>}
  \cup {<<a>> : a \in Areas({P, MAIN, Name("CODE", "capitals"), Name("MAIN", "small")}, {2, 3, 4, 39, 62, 64}, {0, 1, 2, 3})}
  \cup {<<a, b>> : a \in Areas({P}, {3, 4, 6, 8, 62}, {0, 1, 2}),
                   b \in Areas({P, Name("P", "small"), MAIN}, {3, 4, 6, 8, 62}, {0, 1, 2, 4})}
  \cup {<<a, b, c>> : a \in Areas({P}, {4, 5, 6, 8}, {1, 2}),
                      b \in Areas({Q}, {4, 5, 6, 8}, {1, 2}),
                      c \in Areas({R}, {4, 5, 6, 8}, {1, 2})}

MCAreaJobs ==
  UNION {[values : {l}, needs : [1..(Len(l) + 1) -> {1, 2}]] : l \in AreaLists}

MCWrapJobs ==
  [load : 0..(TOP - 1), size : 0..17, basic : BOOLEAN, type : {"8k", "16k", "ultimax"}]

Files == [linked : {TRUE}, size : {2, 4}, tail : BOOLEAN]
         \cup [linked : {FALSE}, size : {2, 4, 5}, tail : {FALSE}]
         \cup [linked : {FALSE}, size : {4}, tail : {TRUE}]

Some(bank, key, window) ==
  {<<>>} \cup {<<[bank |-> bank, key |-> key, window |-> window, linked |-> f.linked,
                  size |-> f.size, tail |-> f.tail, strays |-> s]>> :
           f \in Files, s \in IF bank = 0 /\ window = "hi" THEN BOOLEAN ELSE {FALSE}}

MCBankJobs ==
  {a \o b \o c \o d : a \in Some(0, "int", "lo"), b \in Some(0, "int", "hi"),
                      c \in Some(1, "int", "lo"), d \in Some(1, "int", "hi")}
  \cup {b \o c \o d : b \in Some(0, "int", "hi"), c \in Some(1, "int", "lo"),
                      d \in Some(1, "string", "hi") \cup Some(2, "int", "hi")}
=============================================================================
