\* Three threads, two lives of a token and more.
CONSTANTS
  t1 = t1  t2 = t2  t3 = t3
  Threads = {t1, t2, t3}
  Life = 4
  Margin = 3
  AnswerDelay = 2
  SendDelay = 1
  MaxClock = 9
SYMMETRY Alike
SPECIFICATION Spec
INVARIANTS TokenIsLive
