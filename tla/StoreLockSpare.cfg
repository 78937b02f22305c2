SPECIFICATION FairSpec
CONSTANTS
  w1 = w1
  w2 = w2
  w3 = w3
  q1 = q1
  q2 = q2
  Main = Main
  Nobody = Nobody
  Workers <- MCThreeWorkers
  Requests <- MCRequests
  Tasks = 2
PROPERTIES
  RequestsAnswered
  TasksFinish
