CONSTANT MaxTasks <- MCMaxTasks
SPECIFICATION Spec
PROPERTIES StopMeansStopped
