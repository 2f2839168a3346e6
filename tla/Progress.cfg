SPECIFICATION Spec
CONSTANTS
  r1 = r1
  r2 = r2
  c1 = c1
  c2 = c2
  t1 = t1
  t2 = t2
  a = a
  d = d
  docs = docs
  web = web
  query = query
  shell = shell
  gone = gone
  start = start
  nobody = nobody
  s1 = s1
  s2 = s2
  question = question
  draft = draft
  answer = answer
CHECK_DEADLOCK FALSE
PROPERTIES
  
  ModelCallsEnd
  ToolCallsEnd
  
  ChildrenGoOn
