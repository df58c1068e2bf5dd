CONSTANTS
  build = build  plan = plan  script = script  chat = chat  s1 = s1  s2 = s2
  NoStage = NoStage  NoSession = NoSession  NoToken = NoToken
  NoRecord = NoRecord  NoBinding = NoBinding
  Loops = {l1}
  Stages = {build, plan}
  Sessions = {chat, s1, s2}
  Chats = {chat}
  Tokens = {t1, t2}
  Calls = {c1, c2}
  Prompts = {prompt, other}
  Scripts <- TwoStages
  Allows <- EachTool
  MaxEdits = 1
SPECIFICATION Spec
SYMMETRY CallSymmetry
INVARIANT OneSpawnPerToken
INVARIANT SpawnIsAccounted
CHECK_DEADLOCK FALSE
